---------------------------- MODULE Spec2Model ----------------------------
(***************************************************************************)
(* Container-Package-Loader: the placement-and-search core.                *)
(*                                                                         *)
(*   getOrientations, runSimulation, the search worker's message handler   *)
(*   (src/src/services/packing.worker.ts) and the coordinating             *)
(*   calculatePacking (src/unnamed/part_000, second half).                 *)
(*                                                                         *)
(* Lengths are whole centimetres.  The source's tolerance 0.1 is written   *)
(* in tenths: |d| < 0.1 is 10*|d| < 1 and |d| > 0.1 is 10*|d| > 1.         *)
(* Strings are sequences of one-character strings, so that the keys and    *)
(* ids the source builds with template literals are built the same way.   *)
(***************************************************************************)
EXTENDS Integers, Sequences, FiniteSets, TLC

VARIABLES
    \* ---- getOrientations called on its own
    pkg,              \* the PackageType handed to getOrientations
    unique,           \* the list it returned
    oPc,              \* "call" | "returned"
    \* ---- runSimulation, two invocations on the same caller's array
    container,        \* the container handed to both invocations
    arrays,           \* the item arrays on the heap: reference -> contents
    sim,              \* invocation -> its locals (anchors, placedItems, ...)
    \* ---- one search worker (self.onmessage)
    job,              \* e.data: input, strategyId, totalGenerations
    originalAllItems, \* the expanded items
    simulationItems,  \* the expanded items, capped
    population,       \* the chromosomes of the current generation
    bestResult,       \* the best placement so far
    maxVolumeFound,   \* its volume, -1 before the first generation
    gen,              \* the generation counter of the for loop
    results,          \* the sorted results of the generation being bred
    nextGen,          \* the next generation while it is being bred
    wPc,              \* the handler's position
    posted,           \* the messages the worker has posted, in order
    \* ---- the coordinator (calculatePacking) and its workers
    coordInput,       \* the input calculatePacking was called with
    hardwareConcurrency, \* navigator.hardwareConcurrency, 0 when undefined
    hasOnProgress,    \* whether the caller passed onProgress
    maxWorkers,       \* the number of workers spawned
    workerPc,         \* worker -> "running" | "finished" | "failed"
    workerGen,        \* worker -> the generation of its for loop
    terminated,       \* the workers worker.terminate() was called on
    completedWorkers, \* the 'done' messages handled
    coordResults,     \* the coordinator's results array
    progressMap,      \* strategyId -> percentage
    onProgressCalls,  \* what onProgress was called with, in order
    promise,          \* "pending" | "resolved" | "rejected"
    resolved,         \* the value the promise resolved with
    resolveCalls,     \* the calls of resolve
    rejectCalls,      \* the calls of reject
    \* ---- the single-pass calculatePacking (src/services/packingService.ts)
    gInput,           \* the PackingInput it is called with
    greedy,           \* its locals: anchors, finiteItems, placedItems, ...
    gResult,          \* the PackingResult it returned
    \* ---- the single-threaded calculatePacking (part_000 147-250)
    sInput,           \* the PackingInput it is called with
    sOnProgress,      \* whether the caller passed onProgress
    single,           \* its locals: allItems, population, bestResult, ...
    sCalls,           \* what onProgress was called with, in order
    sResult           \* the PackingResult it returned

orientVars == <<pkg, unique, oPc>>
simVars == <<container, arrays, sim>>
workerVars == <<job, originalAllItems, simulationItems, population, bestResult,
                maxVolumeFound, gen, results, nextGen, wPc, posted>>
coordVars == <<coordInput, hardwareConcurrency, hasOnProgress, maxWorkers,
               workerPc, workerGen, terminated, completedWorkers, coordResults,
               progressMap, onProgressCalls, promise, resolved, resolveCalls,
               rejectCalls>>
greedyVars == <<gInput, greedy, gResult>>
singleVars == <<sInput, sOnProgress, single, sCalls, sResult>>
vars == <<orientVars, simVars, workerVars, coordVars, greedyVars, singleVars>>

(***************************************************************************)
(* Numbers and strings                                                     *)
(***************************************************************************)
Abs(n) == IF n < 0 THEN -n ELSE n

Min(a, b) == IF a < b THEN a ELSE b

Max(a, b) == IF a > b THEN a ELSE b

\* The element of a one-element set.  The({ F(x) : x \in {e} }) is F(e) with e
\* evaluated once, where F uses it more than once.
The(S) == CHOOSE x \in S : TRUE

DigitChar(d) ==
    CASE d = 0 -> "0" [] d = 1 -> "1" [] d = 2 -> "2" [] d = 3 -> "3"
      [] d = 4 -> "4" [] d = 5 -> "5" [] d = 6 -> "6" [] d = 7 -> "7"
      [] d = 8 -> "8" [] d = 9 -> "9"

\* String(n) of a non-negative integer, as a template literal formats it
RECURSIVE NumToStr(_)
NumToStr(n) ==
    IF n < 10 THEN <<DigitChar(n)>>
    ELSE NumToStr(n \div 10) \o <<DigitChar(n % 10)>>

Dims(l, w, h) == [length |-> l, width |-> w, height |-> h]

Volume(d) == d.length * d.width * d.height

(***************************************************************************)
(* getOrientations (packing.worker.ts 48-72)                               *)
(***************************************************************************)
\* the six assignments of (l, w, h) to (length, width, height), in order
AllOrientations(p) ==
    LET l == p.dimensions.length
        w == p.dimensions.width
        h == p.dimensions.height
    IN  << Dims(l, w, h), Dims(w, l, h), Dims(l, h, w),
           Dims(h, l, w), Dims(w, h, l), Dims(h, w, l) >>

\* Math.abs(o.height - h) < 0.1
SameHeight(o, h) == 10 * Abs(o.height - h) < 1

\* all 6 orientations whatever keepUpright says
AllowedIgnoringUpright(p) == AllOrientations(p)

AllowedOrientations(p) ==
    IF p.keepUpright
    THEN SelectSeq(AllOrientations(p),
                   LAMBDA o : SameHeight(o, p.dimensions.height))
    ELSE AllOrientations(p)

\* a key without its separators: "1-12-3" and "11-2-3" both give "1123"
OrientKeyNoSeparator(opt) ==
    NumToStr(opt.length) \o NumToStr(opt.width) \o NumToStr(opt.height)

\* `${opt.length}-${opt.width}-${opt.height}`
OrientKey(opt) ==
    NumToStr(opt.length) \o <<"-">> \o NumToStr(opt.width) \o <<"-">>
        \o NumToStr(opt.height)

\* allowed.forEach: push the options whose key was not seen yet; when option
\* i is reached, seen holds the keys of the options before it
RECURSIVE UniqueFrom(_, _)
UniqueFrom(allowed, i) ==
    IF i > Len(allowed) THEN <<>>
    ELSE LET key == OrientKey(allowed[i])
             seen == { OrientKey(allowed[j]) : j \in 1..(i - 1) }
         IN  IF key \in seen
             THEN UniqueFrom(allowed, i + 1)
             ELSE <<allowed[i]>> \o UniqueFrom(allowed, i + 1)

getOrientations(p) == UniqueFrom(AllowedOrientations(p), 1)


(***************************************************************************)
(* runSimulation (packing.worker.ts 75-179)                                *)
(***************************************************************************)
\* maxIterations, the safety cap on loop iterations
maxIterations == 50000

\* itemsToPack.length > 1000 in the source; scaled down with the inputs
SearchDepthThreshold == 3

\* the search depth 200 of a long queue in the source; scaled down likewise
SearchDepthCap == 2

SearchDepth(n) == IF n > SearchDepthThreshold THEN SearchDepthCap ELSE n

Anchor(x, y, z) == [x |-> x, y |-> y, z |-> z]

\* a comparator that orders by x first
AnchorCompareLeftFirst(a, b) ==
    IF 10 * Abs(a.x - b.x) > 1 THEN a.x - b.x
    ELSE IF 10 * Abs(a.y - b.y) > 1 THEN a.y - b.y
    ELSE a.z - b.z

\* the comparator of anchors.sort: back, then bottom, then left
AnchorCompare(a, b) ==
    IF 10 * Abs(a.z - b.z) > 1 THEN a.z - b.z
    ELSE IF 10 * Abs(a.y - b.y) > 1 THEN a.y - b.y
    ELSE a.x - b.x

\* anchors.sort(...): Array.prototype.sort is stable, so an anchor's place is
\* the number of anchors the comparator puts before it, or ties it with and
\* that stood before it
SortAnchors(as) ==
    LET n == Len(as)
        Before(j, i) ==
            \/ AnchorCompare(as[j], as[i]) < 0
            \/ AnchorCompare(as[j], as[i]) = 0 /\ j < i
        Place(i) == Cardinality({ j \in 1..n : Before(j, i) }) + 1
    IN  [ p \in 1..n |-> as[CHOOSE i \in 1..n : Place(i) = p] ]

\* 1. Boundary Check, without the check of the height
FitsContainerNoHeightCheck(cont, a, orient) ==
    /\ ~(a.x + orient.width > cont.width)
    /\ ~(a.z + orient.length > cont.length)

\* 1. Boundary Check (lines 109-111)
FitsContainer(cont, a, orient) ==
    /\ ~(a.x + orient.width > cont.width)
    /\ ~(a.y + orient.height > cont.height)
    /\ ~(a.z + orient.length > cont.length)

\* the rejection chain with "below" tested against the candidate's top
CollidesBelowTop(p, a, orient) ==
    IF p.z + p.length <= a.z THEN FALSE
    ELSE IF p.z >= a.z + orient.length THEN FALSE
    ELSE IF p.y + p.height <= a.y + orient.height THEN FALSE
    ELSE IF p.y >= a.y + orient.height THEN FALSE
    ELSE IF p.x + p.width <= a.x THEN FALSE
    ELSE IF p.x >= a.x + orient.width THEN FALSE
    ELSE TRUE

\* 2. the "Fast Rejection" chain of one placed item p (lines 126-141)
Collides(p, a, orient) ==
    IF p.z + p.length <= a.z THEN FALSE
    ELSE IF p.z >= a.z + orient.length THEN FALSE
    ELSE IF p.y + p.height <= a.y THEN FALSE
    ELSE IF p.y >= a.y + orient.height THEN FALSE
    ELSE IF p.x + p.width <= a.x THEN FALSE
    ELSE IF p.x >= a.x + orient.width THEN FALSE
    ELSE TRUE

Intersects(placedItems, a, orient) ==
    \E k \in 1..Len(placedItems) : Collides(placedItems[k], a, orient)

Feasible(cont, placedItems, a, orient) ==
    FitsContainer(cont, a, orient) /\ ~Intersects(placedItems, a, orient)

\* the index of the last feasible orientation, or 0
LastOrientation(cont, placedItems, a, orientations) ==
    LET ok == { j \in 1..Len(orientations) :
                    Feasible(cont, placedItems, a, orientations[j]) }
    IN  IF ok = {} THEN 0 ELSE CHOOSE j \in ok : \A k \in ok : j >= k

\* for (const orient of orientations): index of the first feasible one, or 0
FirstOrientation(cont, placedItems, a, orientations) ==
    LET ok == { j \in 1..Len(orientations) :
                    Feasible(cont, placedItems, a, orientations[j]) }
    IN  IF ok = {} THEN 0 ELSE CHOOSE j \in ok : \A k \in ok : j <= k

\* for (let i = 0; i < limit; i++): index of the first queue entry with a
\* feasible orientation, or 0 (the source's -1)
BestItemIndex(cont, placedItems, a, queue, limit) ==
    LET ok == { i \in 1..limit :
                  \E orientations \in {getOrientations(queue[i].type)} :
                      FirstOrientation(cont, placedItems, a, orientations) # 0 }
    IN  IF ok = {} THEN 0 ELSE CHOOSE i \in ok : \A k \in ok : i <= k

\* the orientation the search stopped at for queue entry i
BestOrientation(cont, placedItems, a, item) ==
    The({ orientations[FirstOrientation(cont, placedItems, a, orientations)] :
              orientations \in {getOrientations(item.type)} })

PlacedItem(a, orient, item) ==
    [ x |-> a.x, y |-> a.y, z |-> a.z,
      width |-> orient.width, height |-> orient.height,
      length |-> orient.length,
      packageId |-> item.id, color |-> item.type.color,
      label |-> item.type.name ]

\* the queue with nothing removed
SpliceNothing(queue, i) == queue

\* queue.splice(i, 1), i counted from 1
Splice(queue, i) == SubSeq(queue, 1, i - 1) \o SubSeq(queue, i + 1, Len(queue))

\* anchors.shift()
Shift(as) == Tail(as)

\* New Anchors without the one in front of the placed item
NewAnchorsNoFront(a, orient) ==
    << Anchor(a.x, a.y + orient.height, a.z),
       Anchor(a.x + orient.width, a.y, a.z) >>

\* the three New Anchors (lines 171-173)
NewAnchors(a, orient) ==
    << Anchor(a.x, a.y + orient.height, a.z),
       Anchor(a.x + orient.width, a.y, a.z),
       Anchor(a.x, a.y, a.z + orient.length) >>

\* the locals of an invocation once lines 76-84 have run
SimStart(itemsToPack) ==
    [ placedItems |-> <<>>,
      anchors |-> <<Anchor(0, 0, 0)>>,
      searchDepth |-> SearchDepth(Len(itemsToPack)),
      safetyCounter |-> 0 ]

\* the while condition with a cap of two iterations
LoopConditionShortCap(st, queue) ==
    /\ Len(st.anchors) > 0
    /\ Len(queue) > 0
    /\ st.safetyCounter < 2

\* the condition of the while loop (line 86)
LoopCondition(st, queue) ==
    /\ Len(st.anchors) > 0
    /\ Len(queue) > 0
    /\ st.safetyCounter < maxIterations

\* what one iteration finds: the sorted anchors, the chosen item and orientation
SearchFrom(cont, st, queue, sorted) ==
    The({ [ sorted |-> sorted, currentAnchor |-> sorted[1],
            bestItemIndex |-> i,
            bestOrientation |->
                IF i = 0 THEN Dims(0, 0, 0)
                ELSE BestOrientation(cont, st.placedItems, sorted[1], queue[i]) ] :
          i \in { BestItemIndex(cont, st.placedItems, sorted[1], queue,
                                Min(Len(queue), st.searchDepth)) } })

Search(cont, st, queue) ==
    The({ SearchFrom(cont, st, queue, sorted) :
              sorted \in {SortAnchors(st.anchors)} })

\* an iteration whose fruitless case leaves the anchors and the counter alone
IterationKeepingAnchor(st, queue, s) ==
    IF s.bestItemIndex # 0
    THEN [ placed |-> TRUE,
           locals |->
             [ st EXCEPT
                 !.safetyCounter = @ + 1,
                 !.placedItems = Append(@, PlacedItem(s.currentAnchor,
                                            s.bestOrientation,
                                            queue[s.bestItemIndex])),
                 !.anchors = Shift(s.sorted)
                               \o NewAnchors(s.currentAnchor, s.bestOrientation) ],
           queue |-> Splice(queue, s.bestItemIndex) ]
    ELSE [ placed |-> FALSE, locals |-> st, queue |-> queue ]

\* the locals and the queue after an iteration that found s
IterationFrom(st, queue, s) ==
    IF s.bestItemIndex # 0
    THEN [ placed |-> TRUE,
           locals |->
             [ st EXCEPT
                 !.safetyCounter = @ + 1,
                 !.placedItems = Append(@, PlacedItem(s.currentAnchor,
                                            s.bestOrientation,
                                            queue[s.bestItemIndex])),
                 !.anchors = Shift(s.sorted)
                               \o NewAnchors(s.currentAnchor, s.bestOrientation) ],
           queue |-> Splice(queue, s.bestItemIndex) ]
    ELSE [ placed |-> FALSE,
           locals |->
             [ st EXCEPT
                 !.safetyCounter = @ + 1,
                 !.anchors = Shift(s.sorted) ],
           queue |-> queue ]

\* one iteration of the loop (lines 87-176)
Iteration(cont, st, queue) ==
    The({ IterationFrom(st, queue, s) : s \in {Search(cont, st, queue)} })

\* the while loop on the call's own queue: the list it returns
RECURSIVE RunLoop(_, _, _)
RunLoop(cont, st, queue) ==
    IF LoopCondition(st, queue)
    THEN The({ RunLoop(cont, it.locals, it.queue) :
                   it \in {Iteration(cont, st, queue)} })
    ELSE st.placedItems

runSimulation(cont, itemsToPack) ==
    RunLoop(cont, SimStart(itemsToPack), itemsToPack)

(***************************************************************************)
(* Package types and item instances                                        *)
(***************************************************************************)
\* a PackageType without quantity ("fill")
FillType(id, name, d, up) ==
    [ id |-> id, name |-> name, dimensions |-> d, color |-> "#3b82f6",
      keepUpright |-> up ]

\* a PackageType with its optional quantity set
QuantityType(id, name, d, up, q) ==
    [ id |-> id, name |-> name, dimensions |-> d, color |-> "#3b82f6",
      keepUpright |-> up, quantity |-> q ]

\* !pkg.quantity || pkg.quantity === 0
IsFill(p) == ("quantity" \notin DOMAIN p) \/ p.quantity = 0

\* `${pkg.id}-${i}`
ItemId(p, i) == p.id \o <<"-">> \o NumToStr(i)

ItemToPack(p, i) ==
    [ type |-> p, id |-> ItemId(p, i), vol |-> Volume(p.dimensions) ]

\* the orderings of an item list: every permutation of it
Orderings(items) ==
    { [ i \in 1..Len(items) |-> items[f[i]] ] :
          f \in Permutations(1..Len(items)) }

\* the rotations of an item list
Rotations(items) ==
    { [ i \in 1..Len(items) |->
            items[((i + k - 1) % Len(items)) + 1] ] : k \in 1..Len(items) }

(***************************************************************************)
(* The parts of the state a specification leaves alone                     *)
(***************************************************************************)
OrientUnused ==
    /\ pkg = FillType(<<>>, "", Dims(0, 0, 0), FALSE)
    /\ unique = <<>>
    /\ oPc = "unused"

SimUnused ==
    /\ container = Dims(0, 0, 0)
    /\ arrays = <<>>
    /\ sim = <<>>

WorkerUnused ==
    /\ job = <<>>
    /\ originalAllItems = <<>>
    /\ simulationItems = <<>>
    /\ population = <<>>
    /\ bestResult = <<>>
    /\ maxVolumeFound = -1
    /\ gen = 0
    /\ results = <<>>
    /\ nextGen = <<>>
    /\ wPc = "unused"
    /\ posted = <<>>

CoordUnused ==
    /\ coordInput = <<>>
    /\ hardwareConcurrency = 0
    /\ hasOnProgress = FALSE
    /\ maxWorkers = 0
    /\ workerPc = <<>>
    /\ workerGen = <<>>
    /\ terminated = {}
    /\ completedWorkers = 0
    /\ coordResults = <<>>
    /\ progressMap = <<>>
    /\ onProgressCalls = <<>>
    /\ promise = "unused"
    /\ resolved = <<>>
    /\ resolveCalls = 0
    /\ rejectCalls = 0

GreedyUnused ==
    /\ gInput = <<>>
    /\ greedy = <<>>
    /\ gResult = <<>>

SingleUnused ==
    /\ sInput = <<>>
    /\ sOnProgress = FALSE
    /\ single = <<>>
    /\ sCalls = <<>>
    /\ sResult = <<>>

(***************************************************************************)
(* getOrientations on its own                                              *)
(***************************************************************************)
\* the edge lengths a box is drawn from
BoxEdges == {1, 2, 3, 11}

InitOrient ==
    /\ pkg \in { FillType(<<"a">>, "A", Dims(l, w, h), up) :
                     l \in BoxEdges, w \in BoxEdges, h \in BoxEdges,
                     up \in BOOLEAN }
    /\ unique = <<>>
    /\ oPc = "call"
    /\ SimUnused
    /\ WorkerUnused
    /\ CoordUnused
    /\ GreedyUnused
    /\ SingleUnused

CallGetOrientations ==
    /\ oPc = "call"
    /\ unique' = getOrientations(pkg)
    /\ oPc' = "returned"
    /\ UNCHANGED <<pkg, simVars, workerVars, coordVars,
                   greedyVars, singleVars>>

NextOrient == CallGetOrientations

SpecOrient == InitOrient /\ [][NextOrient]_vars

(***************************************************************************)
(* runSimulation, called twice on the same array of items                  *)
(***************************************************************************)
Runs == {1, 2}

\* const queue = [...itemsToPack] with the copy left out
QueueRefAliased(r) == "itemsToPack"

\* const queue = [...itemsToPack]: each invocation's queue is a new array
QueueRef(r) == IF r = 1 THEN "queue1" ELSE "queue2"

Idle == [ pc |-> "idle", placedItems |-> <<>>, anchors |-> <<>>,
          searchDepth |-> 0, safetyCounter |-> 0 ]

\* the locals of invocation r, without its position
Locals(r) ==
    [ placedItems |-> sim[r].placedItems, anchors |-> sim[r].anchors,
      searchDepth |-> sim[r].searchDepth,
      safetyCounter |-> sim[r].safetyCounter ]

WithPc(st, pc) ==
    [ pc |-> pc, placedItems |-> st.placedItems, anchors |-> st.anchors,
      searchDepth |-> st.searchDepth, safetyCounter |-> st.safetyCounter ]

Queue(r) == arrays[QueueRef(r)]

pA == QuantityType(<<"a">>, "A", Dims(2, 1, 1), FALSE, 2)
pB == QuantityType(<<"b">>, "B", Dims(1, 1, 2), TRUE, 1)
pC == QuantityType(<<"c">>, "C", Dims(1, 1, 1), FALSE, 2)
pD == QuantityType(<<"d">>, "D", Dims(1, 2, 1), TRUE, 1)

SimContainers == { Dims(2, 2, 2), Dims(2, 2, 1), Dims(3, 1, 2) }

\* item lists tried in every order
SimShortLists ==
    { << ItemToPack(pA, 0), ItemToPack(pA, 1), ItemToPack(pB, 0) >>,
      << ItemToPack(pA, 0), ItemToPack(pB, 0), ItemToPack(pC, 0),
         ItemToPack(pD, 0) >> }

\* item lists tried in their rotations
SimLongLists ==
    { << ItemToPack(pD, 0), ItemToPack(pB, 0), ItemToPack(pA, 0),
         ItemToPack(pC, 0), ItemToPack(pC, 1), ItemToPack(pA, 1) >> }

SimOrderings ==
    UNION { Orderings(l) : l \in SimShortLists }
        \cup UNION { Rotations(l) : l \in SimLongLists }

InitSim ==
    /\ container \in SimContainers
    /\ \E dna \in SimOrderings :
           arrays = [ itemsToPack |-> dna, queue1 |-> <<>>, queue2 |-> <<>> ]
    /\ sim = [ r \in Runs |-> Idle ]
    /\ OrientUnused
    /\ WorkerUnused
    /\ CoordUnused
    /\ GreedyUnused
    /\ SingleUnused

\* lines 76-84: the call sets up its locals and copies the items
SimCall(r) ==
    /\ sim[r].pc = "idle"
    /\ sim' = [ sim EXCEPT ![r] = WithPc(SimStart(arrays.itemsToPack), "loop") ]
    /\ arrays' = [ arrays EXCEPT ![QueueRef(r)] = arrays.itemsToPack ]
    /\ UNCHANGED <<container, orientVars, workerVars, coordVars,
                   greedyVars, singleVars>>

\* the two invocations are stepped side by side: the one ahead waits
MayStep(r) ==
    /\ sim[r].pc = "loop"
    /\ \A o \in Runs \ {r} :
           sim[o].pc = "loop" => sim[r].safetyCounter <= sim[o].safetyCounter

\* an iteration that places an item (lines 154-173)
SimPlace(r) ==
    /\ MayStep(r)
    /\ LoopCondition(Locals(r), Queue(r))
    /\ \E it \in {Iteration(container, Locals(r), Queue(r))} :
           /\ it.placed
           /\ sim' = [ sim EXCEPT ![r] = WithPc(it.locals, "loop") ]
           /\ arrays' = [ arrays EXCEPT ![QueueRef(r)] = it.queue ]
    /\ UNCHANGED <<container, orientVars, workerVars, coordVars,
                   greedyVars, singleVars>>

\* an iteration that discards the anchor (lines 174-176)
SimDiscard(r) ==
    /\ MayStep(r)
    /\ LoopCondition(Locals(r), Queue(r))
    /\ \E it \in {Iteration(container, Locals(r), Queue(r))} :
           /\ ~it.placed
           /\ sim' = [ sim EXCEPT ![r] = WithPc(it.locals, "loop") ]
           /\ arrays' = [ arrays EXCEPT ![QueueRef(r)] = it.queue ]
    /\ UNCHANGED <<container, orientVars, workerVars, coordVars,
                   greedyVars, singleVars>>

\* the loop exits and the call returns placedItems (line 178)
SimReturn(r) ==
    /\ sim[r].pc = "loop"
    /\ ~LoopCondition(Locals(r), Queue(r))
    /\ sim' = [ sim EXCEPT ![r].pc = "done" ]
    /\ UNCHANGED <<arrays, container, orientVars, workerVars, coordVars,
                   greedyVars, singleVars>>

NextSim ==
    \/ \E r \in Runs : SimCall(r)
    \/ \E r \in Runs : SimPlace(r)
    \/ \E r \in Runs : SimDiscard(r)
    \/ \E r \in Runs : SimReturn(r)

SpecSim == InitSim /\ [][NextSim]_vars

\* the orderings the invocations are followed to their end on
SimFairOrderings ==
    Orderings(<< ItemToPack(pA, 0), ItemToPack(pA, 1), ItemToPack(pB, 0) >>)
        \cup UNION { Rotations(l) : l \in SimLongLists }

InitSimFair ==
    /\ container \in SimContainers
    /\ \E dna \in SimFairOrderings :
           arrays = [ itemsToPack |-> dna, queue1 |-> <<>>, queue2 |-> <<>> ]
    /\ sim = [ r \in Runs |-> Idle ]
    /\ OrientUnused
    /\ WorkerUnused
    /\ CoordUnused
    /\ GreedyUnused
    /\ SingleUnused

\* runSimulation is synchronous code: once called it keeps running
SpecSimFair == InitSimFair /\ [][NextSim]_vars /\ WF_vars(NextSim)

(***************************************************************************)
(* Properties of runSimulation                                             *)
(***************************************************************************)
\* the half-open extents [p, p+s) and [q, q+t) have no point in common
Apart(p, s, q, t) == p + s <= q \/ q + t <= p

BoxesApart(p, q) ==
    \/ Apart(p.x, p.width, q.x, q.width)
    \/ Apart(p.y, p.height, q.y, q.height)
    \/ Apart(p.z, p.length, q.z, q.length)

\* C1 (no-overlap): in every state of the placement loop, any two distinct
\* placed items are apart on at least one axis.
C1_NoOverlap ==
    \A r \in Runs :
        \A i \in 1..Len(sim[r].placedItems) :
            \A j \in 1..Len(sim[r].placedItems) :
                i < j => BoxesApart(sim[r].placedItems[i], sim[r].placedItems[j])

\* an invocation has returned three or more items, two of them face to face
\* along x, and some candidate was turned down because it would have collided
C1_Witness ==
    \E r \in Runs :
        /\ sim[r].pc = "done"
        /\ Len(sim[r].placedItems) >= 3
        /\ \E i, j \in 1..Len(sim[r].placedItems) :
              LET p == sim[r].placedItems[i]
                  q == sim[r].placedItems[j]
              IN  /\ p.x + p.width = q.x
                  /\ ~Apart(p.y, p.height, q.y, q.height)
                  /\ ~Apart(p.z, p.length, q.z, q.length)
        /\ Len(Queue(r)) > 0

\* C2 (in-bounds): every placed item lies within the container.
C2_InBounds ==
    \A r \in Runs :
        \A i \in 1..Len(sim[r].placedItems) :
            LET p == sim[r].placedItems[i]
            IN  /\ 0 <= p.x /\ p.x + p.width <= container.width
                /\ 0 <= p.y /\ p.y + p.height <= container.height
                /\ 0 <= p.z /\ p.z + p.length <= container.length

\* an item was placed away from the origin and flush with the container's
\* ceiling, and an item that fits nowhere was left in the queue
C2_Witness ==
    \E r \in Runs :
        /\ sim[r].pc = "done"
        /\ Len(Queue(r)) > 0
        /\ \E i \in 1..Len(sim[r].placedItems) :
              LET p == sim[r].placedItems[i]
              IN  p.y > 0 /\ p.y + p.height = container.height

\* the package type a placed item was made from, found by the item's id
SourceType(p) ==
    LET items == arrays.itemsToPack
        i == CHOOSE k \in 1..Len(items) : items[k].id = p.packageId
    IN  items[i].type

\* C3 (upright preservation): a placed item of a keepUpright type has the
\* type's height, to within 0.1.
C3_UprightPreserved ==
    \A r \in Runs :
        \A i \in 1..Len(sim[r].placedItems) :
            LET p == sim[r].placedItems[i]
            IN  SourceType(p).keepUpright =>
                    10 * Abs(p.height - SourceType(p).dimensions.height) < 1

\* a keepUpright item was placed turned about the vertical axis, and another
\* keepUpright item, too tall for the container, was left unplaced
C3_Witness ==
    \E r \in Runs :
        /\ sim[r].pc = "done"
        /\ \E i \in 1..Len(sim[r].placedItems) :
              LET p == sim[r].placedItems[i]
              IN  /\ SourceType(p).keepUpright
                  /\ p.width # SourceType(p).dimensions.width
        /\ \E k \in 1..Len(Queue(r)) :
              /\ Queue(r)[k].type.keepUpright
              /\ Queue(r)[k].type.dimensions.height > container.height

Started(r) == sim[r].pc \in {"loop", "done"}

\* C6 (determinism): two invocations on the same container and the same
\* ordering agree on anchors, queue and placed items after the same number of
\* iterations, and return the same list.
C6_Deterministic ==
    \A r1 \in Runs : \A r2 \in Runs :
        /\ ( /\ Started(r1) /\ Started(r2)
             /\ sim[r1].safetyCounter = sim[r2].safetyCounter )
           => /\ sim[r1].anchors = sim[r2].anchors
              /\ sim[r1].placedItems = sim[r2].placedItems
              /\ Queue(r1) = Queue(r2)
        /\ (sim[r1].pc = "done" /\ sim[r2].pc = "done")
           => sim[r1].placedItems = sim[r2].placedItems

\* both invocations have returned, after placing items and discarding anchors
C6_Witness ==
    /\ \A r \in Runs : sim[r].pc = "done"
    /\ Len(sim[1].placedItems) >= 2
    /\ sim[2].safetyCounter > Len(sim[2].placedItems)
    /\ Len(Queue(2)) > 0

\* the package types the items of the simulated orderings are instances of
SimTypes == {pA, pB, pC, pD}

\* the placed items of invocation r made from the type p
PlacedFrom(r, p) ==
    { k \in 1..Len(sim[r].placedItems) :
          sim[r].placedItems[k].label = p.name }

\* C18 (per-type supply limit): in every state of the placement loop no two
\* placed items carry the same item instance id, and the placed items made
\* from a finite-quantity type are never more than the type's quantity.
C18_SupplyLimit ==
    \A r \in Runs :
        /\ \A i, j \in 1..Len(sim[r].placedItems) :
               i < j => sim[r].placedItems[i].packageId
                            # sim[r].placedItems[j].packageId
        /\ \A p \in SimTypes :
               ~IsFill(p) => Cardinality(PlacedFrom(r, p)) <= p.quantity

\* an invocation has placed every instance of a type of quantity 2, and
\* items of other types with it
C18_Witness ==
    \E r \in Runs :
        /\ sim[r].pc = "done"
        /\ \E p \in SimTypes :
               /\ p.quantity = 2
               /\ Cardinality(PlacedFrom(r, p)) = 2
               /\ Len(sim[r].placedItems) > 2

\* the anchor that is least by z, then y, then x
LeastAnchor(as) ==
    CHOOSE a \in { as[i] : i \in 1..Len(as) } :
        \A i \in 1..Len(as) :
            \/ a.z < as[i].z
            \/ a.z = as[i].z /\ a.y < as[i].y
            \/ a.z = as[i].z /\ a.y = as[i].y /\ a.x <= as[i].x

\* the box of orientation o with its corner at the anchor a
BoxAt(a, o) ==
    [ x |-> a.x, y |-> a.y, z |-> a.z,
      width |-> o.width, height |-> o.height, length |-> o.length ]

\* the box lies within the container and apart from every item invocation r
\* has placed
CanSit(r, box) ==
    /\ box.x + box.width <= container.width
    /\ box.y + box.height <= container.height
    /\ box.z + box.length <= container.length
    /\ \A k \in 1..Len(sim[r].placedItems) :
           BoxesApart(sim[r].placedItems[k], box)

\* queue entry k of invocation r has an allowed orientation that can sit at a
FitsAt(r, k, a) ==
    \E o \in 1..Len(getOrientations(Queue(r)[k].type)) :
        CanSit(r, BoxAt(a, getOrientations(Queue(r)[k].type)[o]))

\* this step is an iteration of invocation r that places an item
PlacingStep(r) ==
    /\ sim[r].pc = "loop"
    /\ Len(sim'[r].placedItems) = Len(sim[r].placedItems) + 1

\* this step is an iteration of invocation r that places nothing
DiscardingStep(r) ==
    /\ sim[r].pc = "loop"
    /\ sim'[r].safetyCounter = sim[r].safetyCounter + 1
    /\ Len(sim'[r].placedItems) = Len(sim[r].placedItems)

\* the item the step has placed
NewItem(r) == sim'[r].placedItems[Len(sim'[r].placedItems)]

\* the step placed the earliest queue entry that fits at the least anchor, in
\* the first of its orientations that can sit there
FirstFitStep(r) ==
    LET a == LeastAnchor(sim[r].anchors)
        new == NewItem(r)
        i == CHOOSE k \in 1..Len(Queue(r)) : Queue(r)[k].id = new.packageId
        os == getOrientations(Queue(r)[i].type)
        j == CHOOSE o \in 1..Len(os) :
                 os[o] = Dims(new.length, new.width, new.height)
    IN  /\ new.x = a.x /\ new.y = a.y /\ new.z = a.z
        /\ CanSit(r, BoxAt(a, os[j]))
        /\ \A o \in 1..(j - 1) : ~CanSit(r, BoxAt(a, os[o]))
        /\ \A k \in 1..(i - 1) : ~FitsAt(r, k, a)

\* C23 (first-fit choice): in every iteration that places something, the
\* placed item is the earliest in queue order with an orientation feasible at
\* the selected anchor, in the first feasible orientation of getOrientations'
\* order; no earlier item and no earlier orientation was feasible.
C23_FirstFit ==
    [][\A r \in Runs : PlacingStep(r) => FirstFitStep(r)]_vars

\* an invocation returned a list whose first item is not the first of the
\* ordering, with an item turned from the dimensions of its type
C23_Witness ==
    \E r \in Runs :
        /\ sim[r].pc = "done"
        /\ Len(sim[r].placedItems) >= 2
        /\ sim[r].placedItems[1].packageId # arrays.itemsToPack[1].id
        /\ \E k \in 1..Len(sim[r].placedItems) :
               LET p == sim[r].placedItems[k]
               IN  Dims(p.length, p.width, p.height) # SourceType(p).dimensions

\* C24 (anchor discard rule): an iteration discards its anchor without
\* placing anything only if no item left in the queue, scanned or not, has an
\* allowed orientation that fits the container and avoids overlap there.
C24_DiscardOnlyIfNothingFits ==
    [][\A r \in Runs :
          DiscardingStep(r) =>
              \A k \in 1..Len(Queue(r)) :
                  ~FitsAt(r, k, LeastAnchor(sim[r].anchors))]_vars

\* the discard rule among the queue entries the iteration scans
DiscardAmongScanned ==
    [][\A r \in Runs :
          DiscardingStep(r) =>
              \A k \in 1..Min(Len(Queue(r)), sim[r].searchDepth) :
                  ~FitsAt(r, k, LeastAnchor(sim[r].anchors))]_vars

\* how often the anchor a occurs in the list as
AnchorCount(as, a) == Cardinality({ i \in 1..Len(as) : as[i] = a })

\* the anchors after the step are those before it, less one occurrence of the
\* least, and the anchors of added
AnchorsReplaced(r, added) ==
    \A a \in { sim[r].anchors[i] : i \in 1..Len(sim[r].anchors) }
             \cup { sim'[r].anchors[i] : i \in 1..Len(sim'[r].anchors) }
             \cup { added[i] : i \in 1..Len(added) } :
        AnchorCount(sim'[r].anchors, a)
            = AnchorCount(sim[r].anchors, a)
                - (IF a = LeastAnchor(sim[r].anchors) THEN 1 ELSE 0)
                + AnchorCount(added, a)

\* the effect of a step that places: one item leaves the queue, it is appended
\* to the placed items at the least anchor, three anchors are added
PlacingEffect(r) ==
    LET a == LeastAnchor(sim[r].anchors)
        new == NewItem(r)
    IN  /\ sim'[r].placedItems = Append(sim[r].placedItems, new)
        /\ new.x = a.x /\ new.y = a.y /\ new.z = a.z
        /\ \E i \in 1..Len(Queue(r)) :
               /\ Queue(r)[i].id = new.packageId
               /\ Queue(r)' = [ k \in 1..(Len(Queue(r)) - 1) |->
                                  IF k < i THEN Queue(r)[k] ELSE Queue(r)[k + 1] ]
        /\ AnchorsReplaced(r, << Anchor(a.x, a.y + new.height, a.z),
                                  Anchor(a.x + new.width, a.y, a.z),
                                  Anchor(a.x, a.y, a.z + new.length) >>)

\* the effect of a step that places nothing: only the least anchor goes
DiscardingEffect(r) ==
    /\ sim'[r].placedItems = sim[r].placedItems
    /\ Queue(r)' = Queue(r)
    /\ AnchorsReplaced(r, <<>>)

Edges(d) == <<d.length, d.width, d.height>>

\* how often the edge length v occurs in d
Occurrences(d, v) == Cardinality({ i \in 1..3 : Edges(d)[i] = v })

IsRearrangement(o, d) ==
    \A v \in {o.length, o.width, o.height, d.length, d.width, d.height} :
        Occurrences(o, v) = Occurrences(d, v)

\* the number of distinct rearrangements of three edges
DistinctRearrangements(d) ==
    IF d.length = d.width /\ d.width = d.height THEN 1
    ELSE IF d.length = d.width \/ d.width = d.height \/ d.length = d.height
         THEN 3
         ELSE 6

\* C7 (orientation bounds): getOrientations returns 1 to 6 pairwise distinct
\* rearrangements of the box's edges; one for a cube; all of them without
\* keepUpright; only ones of the original height with keepUpright.
C7_OrientationBounds ==
    oPc = "returned" =>
        LET d == pkg.dimensions
        IN  /\ 1 <= Len(unique) /\ Len(unique) <= 6
            /\ \A i, j \in 1..Len(unique) : i # j => unique[i] # unique[j]
            /\ \A i \in 1..Len(unique) : IsRearrangement(unique[i], d)
            /\ (d.length = d.width /\ d.width = d.height) => Len(unique) = 1
            /\ ~pkg.keepUpright => Len(unique) = DistinctRearrangements(d)
            /\ pkg.keepUpright =>
                   \A i \in 1..Len(unique) :
                       10 * Abs(unique[i].height - d.height) < 1

\* a box with two equal edges, one of them of two digits: three orientations
C7_Witness ==
    /\ oPc = "returned"
    /\ ~pkg.keepUpright
    /\ pkg.dimensions = Dims(1, 11, 1)
    /\ Len(unique) = 3

(***************************************************************************)
(* The search worker: self.onmessage (packing.worker.ts 182-286)           *)
(***************************************************************************)
\* the instances generated for a fill type: 1000 in the source, scaled down
FillCount == 3

\* the cap on simulated items: 5000 in the source, scaled down
ItemCap == 4

\* isHeavyLoad is simulationItems.length > 1000 in the source; scaled down
HeavyLoadThreshold == 3

\* POPULATION_SIZE: 10 in the source, 4 under heavy load; scaled down
PopulationLight == 3

PopulationHeavy == 2

\* survivorsCount: 4 in the source, 2 under heavy load; scaled down
SurvivorsLight == 2

SurvivorsHeavy == 1

\* the largest totalGenerations a job asks for
MaxGenerations == 2

\* the values Math.random() takes, in tenths
RandomTenths == {0, 5}

\* Math.floor(Math.random() * m)
RandomIndex(r, m) == (r * m) \div 10

\* the sequences of n values of Math.random()
Draws(n) == [1..n -> RandomTenths]

\* [s[a], s[b]] = [s[b], s[a]], a and b counted from 0
Swap(s, a, b) == [s EXCEPT ![a + 1] = s[b + 1], ![b + 1] = s[a + 1]]

\* shuffle (lines 18-25): Fisher-Yates from the last index down to 1
RECURSIVE ShuffleFrom(_, _, _, _)
ShuffleFrom(newArr, i, draws, k) ==
    IF i > 0
    THEN The({ ShuffleFrom(swapped, i - 1, draws, k + 1) :
                 swapped \in {Swap(newArr, i, RandomIndex(draws[k], i + 1))} })
    ELSE newArr

shuffle(array, draws) == ShuffleFrom(array, Len(array) - 1, draws, 1)

\* mutate (lines 27-34)
mutate(dna, ra, rb) ==
    IF Len(dna) < 2 THEN dna
    ELSE Swap(dna, RandomIndex(ra, Len(dna)), RandomIndex(rb, Len(dna)))

\* a crossover that takes the second half of parent2 as it is
breedByHalves(parent1, parent2) ==
    LET cut == Len(parent1) \div 2
    IN  SubSeq(parent1, 1, cut) \o SubSeq(parent2, cut + 1, Len(parent2))

\* breed (lines 36-46)
breed(parent1, parent2) ==
    LET cut == Len(parent1) \div 2
        child == SubSeq(parent1, 1, cut)
        existingIds == { child[i].id : i \in 1..Len(child) }
    IN  child \o SelectSeq(parent2, LAMBDA gene : gene.id \notin existingIds)

\* s.sort((a, b) => key(b) - key(a)): the sort is stable, so an element's place
\* is the number of elements of a larger key, or of the same key and before it
SortDescBy(s, keys) ==
    LET n == Len(s)
        Before(j, i) ==
            \/ keys[i] - keys[j] < 0
            \/ keys[i] - keys[j] = 0 /\ j < i
        Place(i) == Cardinality({ j \in 1..n : Before(j, i) }) + 1
    IN  [ p \in 1..n |-> s[CHOOSE i \in 1..n : Place(i) = p] ]

\* .sort((a, b) => a.vol - b.vol): the smallest first
SortByVolAsc(s) == SortDescBy(s, [ i \in 1..Len(s) |-> 0 - s[i].vol ])

\* .sort((a, b) => b.vol - a.vol), of items and of results
SortByVolDesc(s) == SortDescBy(s, [ i \in 1..Len(s) |-> s[i].vol ])

\* Math.max(type.dimensions.length, type.dimensions.width)
Footprint(item) ==
    Max(item.type.dimensions.length, item.type.dimensions.width)

SortByFootprintDesc(s) == SortDescBy(s, [ i \in 1..Len(s) |-> Footprint(s[i]) ])

\* 1. EXPAND INPUT (lines 187-194)
ExpandCount(p) == IF IsFill(p) THEN FillCount ELSE p.quantity

ExpandPackage(p) == [ i \in 1..ExpandCount(p) |-> ItemToPack(p, i - 1) ]

RECURSIVE ExpandFrom(_, _, _)
ExpandFrom(packages, k, acc) ==
    IF k > Len(packages) THEN acc
    ELSE ExpandFrom(packages, k + 1, acc \o ExpandPackage(packages[k]))

ExpandInput(packages) == ExpandFrom(packages, 1, <<>>)

\* lines 196-197
CapItems(items) ==
    IF Len(items) > ItemCap THEN SubSeq(items, 1, ItemCap) ELSE items

\* 2. CONFIGURE GENERATIONS based on load (lines 200-201, 242)
IsHeavyLoad(items) == Len(items) > HeavyLoadThreshold

PopulationSize(items) ==
    IF IsHeavyLoad(items) THEN PopulationHeavy ELSE PopulationLight

SurvivorsCount(items) ==
    IF IsHeavyLoad(items) THEN SurvivorsHeavy ELSE SurvivorsLight

\* placed.reduce((acc, i) => acc + i.width * i.height * i.length, 0)
RECURSIVE PlacedVolumeFrom(_, _)
PlacedVolumeFrom(placed, k) ==
    IF k > Len(placed) THEN 0
    ELSE placed[k].width * placed[k].height * placed[k].length
             + PlacedVolumeFrom(placed, k + 1)

PlacedVolume(placed) == PlacedVolumeFrom(placed, 1)

\* population.map(dna => ...) and results.sort (lines 229-235)
Evaluate(cont, pop) ==
    The({ SortByVolDesc(unsorted) :
          unsorted \in
            { [ i \in 1..Len(pop) |->
                  The({ [ dna |-> pop[i], placed |-> placed,
                          vol |-> PlacedVolume(placed) ] :
                        placed \in {runSimulation(cont, pop[i])} }) ] } })

\* the survivors taken after the fittest result
SurvivorsWithoutBest(res, count) ==
    [ i \in 1..Min(count, Len(res) - 1) |-> res[i + 1].dna ]

\* the survivors taken from the end of the sorted results
SurvivorsFromEnd(res, count) ==
    [ i \in 1..Min(count, Len(res)) |-> res[Len(res) + 1 - i].dna ]

\* results.slice(0, survivorsCount).map(r => r.dna)
Survivors(res, count) == [ i \in 1..Min(count, Len(res)) |-> res[i].dna ]

\* { ...type, quantity: q }
WithQuantity(type, q) ==
    [ n \in DOMAIN type \cup {"quantity"} |->
        IF n = "quantity" THEN q ELSE type[n] ]

\* unplacedMap after one more unplaced item (lines 262-268); the map is its
\* entries in insertion order
UnplacedAdd(entries, item) ==
    LET originalId == item.type.id
        at == { e \in 1..Len(entries) : entries[e].key = originalId }
    IN  IF at # {}
        THEN LET e == CHOOSE x \in at : TRUE
                 current == entries[e].value
             IN  [ entries EXCEPT ![e].value =
                     WithQuantity(current, current.quantity + 1) ]
        ELSE Append(entries, [ key |-> originalId,
                               value |-> WithQuantity(item.type, 1) ])

\* originalAllItems.forEach from item k on (lines 260-270)
RECURSIVE UnplacedFrom(_, _, _, _)
UnplacedFrom(items, k, placedIds, entries) ==
    IF k > Len(items) THEN entries
    ELSE IF items[k].id \in placedIds
         THEN UnplacedFrom(items, k + 1, placedIds, entries)
         ELSE The({ UnplacedFrom(items, k + 1, placedIds, added) :
                        added \in {UnplacedAdd(entries, items[k])} })

\* the unplaced entries computed from the capped items only
UnplacedOfSimulated(placed, allItems) ==
    LET placedIds == { placed[i].packageId : i \in 1..Len(placed) }
        entries == UnplacedFrom(CapItems(allItems), 1, placedIds, <<>>)
    IN  [ e \in 1..Len(entries) |-> entries[e].value ]

\* 4. FINAL REPORTING: unplacedItems (lines 257-272)
UnplacedItems(placed, allItems) ==
    LET placedIds == { placed[i].packageId : i \in 1..Len(placed) }
        entries == UnplacedFrom(allItems, 1, placedIds, <<>>)
    IN  [ e \in 1..Len(entries) |-> entries[e].value ]

\* the fraction of the volume, not multiplied by 100
UtilizationUnscaled(volume, containerVol) ==
    IF containerVol > 0
    THEN [ num |-> volume, den |-> containerVol ]
    ELSE [ num |-> 0, den |-> 1 ]

\* containerVol > 0 ? (maxVolumeFound / containerVol) * 100 : 0, as a fraction
Utilization(volume, containerVol) ==
    IF containerVol > 0
    THEN [ num |-> volume * 100, den |-> containerVol ]
    ELSE [ num |-> 0, den |-> 1 ]

\* the result of the 'done' message (lines 277-284)
WorkerResult(cont, placed, volume, allItems) ==
    [ containerDimensions |-> cont,
      placedItems |-> placed,
      unplacedItems |-> UnplacedItems(placed, allItems),
      volumeUtilization |-> Utilization(volume, Volume(cont)),
      totalItemsPacked |-> Len(placed),
      layers |-> <<>> ]

\* the package types of the worker's jobs
tA == QuantityType(<<"a">>, "A", Dims(2, 1, 1), FALSE, 2)
tA3 == QuantityType(<<"a">>, "A", Dims(2, 1, 1), FALSE, 3)
\* a type whose id is the id of an instance of tA
tB == QuantityType(<<"a", "-", "0">>, "B", Dims(1, 1, 2), TRUE, 1)
tC == QuantityType(<<"c">>, "C", Dims(1, 1, 1), FALSE, 2)
tF == FillType(<<"f">>, "F", Dims(1, 1, 1), FALSE)
tZ == QuantityType(<<"z">>, "Z", Dims(1, 2, 1), FALSE, 0)
\* a tall type: more volume than tA, a smaller footprint
tT == QuantityType(<<"t">>, "T", Dims(1, 1, 3), FALSE, 1)

WorkerInputs ==
    { [ container |-> Dims(2, 2, 1), packages |-> <<tA, tB>> ],
      [ container |-> Dims(2, 1, 1), packages |-> <<tC>> ],
      [ container |-> Dims(2, 1, 2), packages |-> <<tA3, tC>> ],
      [ container |-> Dims(2, 1, 1), packages |-> <<tF>> ],
      [ container |-> Dims(2, 2, 1), packages |-> <<tZ, tC>> ],
      [ container |-> Dims(2, 1, 3), packages |-> <<tA, tT>> ] }

StrategyIds == {0, 1, 2}

Jobs ==
    [ input : WorkerInputs, strategyId : StrategyIds,
      totalGenerations : 0..MaxGenerations ]

InitWorker ==
    /\ job \in Jobs
    /\ originalAllItems = <<>>
    /\ simulationItems = <<>>
    /\ population = <<>>
    /\ bestResult = <<>>
    /\ maxVolumeFound = -1
    /\ gen = 0
    /\ results = <<>>
    /\ nextGen = <<>>
    /\ wPc = "idle"
    /\ posted = <<>>
    /\ OrientUnused
    /\ SimUnused
    /\ CoordUnused
    /\ GreedyUnused
    /\ SingleUnused

\* the chromosome the strategy seeds the population with (lines 205-215)
FirstChromosome(strategyId, items, draws) ==
    IF strategyId = 0 THEN SortByVolDesc(items)
    ELSE IF strategyId = 1 THEN SortByFootprintDesc(items)
    ELSE shuffle(items, draws)

\* the message arrives: expand, cap, seed the first chromosome (182-215)
WorkerStart ==
    /\ wPc = "idle"
    /\ \E all \in {ExpandInput(job.input.packages)} :
         \E items \in {CapItems(all)} :
           /\ originalAllItems' = all
           /\ simulationItems' = items
           /\ \E draws \in Draws(Len(items) - 1) :
                  population' =
                      <<FirstChromosome(job.strategyId, items, draws)>>
    /\ wPc' = "seed"
    /\ UNCHANGED <<job, bestResult, maxVolumeFound, gen, results, nextGen,
                   posted, orientVars, simVars, coordVars,
                   greedyVars, singleVars>>

\* while (population.length < POPULATION_SIZE) push a shuffle (217-219)
WorkerSeed ==
    /\ wPc = "seed"
    /\ Len(population) < PopulationSize(simulationItems)
    /\ \E draws \in Draws(Len(simulationItems) - 1) :
           population' = Append(population, shuffle(simulationItems, draws))
    /\ UNCHANGED <<job, originalAllItems, simulationItems, bestResult,
                   maxVolumeFound, gen, results, nextGen, wPc, posted,
                   orientVars, simVars, coordVars,
                   greedyVars, singleVars>>

\* the population is full: bestResult, maxVolumeFound, gen = 0 (221-225)
WorkerSeeded ==
    /\ wPc = "seed"
    /\ ~(Len(population) < PopulationSize(simulationItems))
    /\ bestResult' = <<>>
    /\ maxVolumeFound' = -1
    /\ gen' = 0
    /\ wPc' = "for"
    /\ UNCHANGED <<job, originalAllItems, simulationItems, population, results,
                   nextGen, posted, orientVars, simVars, coordVars,
                   greedyVars, singleVars>>

\* the generation is started without its 'progress' message
WorkerProgressUnposted ==
    /\ wPc = "for"
    /\ gen < job.totalGenerations
    /\ wPc' = "timer"
    /\ UNCHANGED <<job, originalAllItems, simulationItems, population,
                   bestResult, maxVolumeFound, gen, results, nextGen, posted,
                   orientVars, simVars, coordVars, greedyVars, singleVars>>

\* post 'progress' and wait for the timer (226-227)
WorkerProgress ==
    /\ wPc = "for"
    /\ gen < job.totalGenerations
    /\ posted' = Append(posted,
                   [ type |-> "progress", gen |-> gen,
                     totalGenerations |-> job.totalGenerations,
                     strategyId |-> job.strategyId ])
    /\ wPc' = "timer"
    /\ UNCHANGED <<job, originalAllItems, simulationItems, population,
                   bestResult, maxVolumeFound, gen, results, nextGen,
                   orientVars, simVars, coordVars,
                   greedyVars, singleVars>>

\* evaluate the generation, keep the best, take the survivors (229-244)
WorkerEvaluate ==
    /\ wPc = "timer"
    /\ \E res \in {Evaluate(job.input.container, population)} :
           /\ results' = res
           /\ IF res[1].vol > maxVolumeFound
              THEN /\ maxVolumeFound' = res[1].vol
                   /\ bestResult' = res[1].placed
              ELSE UNCHANGED <<maxVolumeFound, bestResult>>
           /\ nextGen' = Survivors(res, SurvivorsCount(simulationItems))
    /\ wPc' = "breed"
    /\ UNCHANGED <<job, originalAllItems, simulationItems, population, gen,
                   posted, orientVars, simVars, coordVars,
                   greedyVars, singleVars>>

\* one child of two random survivors, mutated with probability 0.2 (246-252)
WorkerBreed ==
    /\ wPc = "breed"
    /\ Len(nextGen) < PopulationSize(simulationItems)
    /\ \E survivors \in {Survivors(results, SurvivorsCount(simulationItems))} :
           \E r1, r2, rm, ra, rb \in RandomTenths :
               LET p1 == survivors[RandomIndex(r1, Len(survivors)) + 1]
                   p2 == survivors[RandomIndex(r2, Len(survivors)) + 1]
                   child == breed(p1, p2)
               IN  nextGen' = Append(nextGen,
                                IF rm < 2 THEN mutate(child, ra, rb) ELSE child)
    /\ UNCHANGED <<job, originalAllItems, simulationItems, population,
                   bestResult, maxVolumeFound, gen, results, wPc, posted,
                   orientVars, simVars, coordVars,
                   greedyVars, singleVars>>

\* population = nextGen; gen++ (line 253, line 225)
WorkerNextGeneration ==
    /\ wPc = "breed"
    /\ ~(Len(nextGen) < PopulationSize(simulationItems))
    /\ population' = nextGen
    /\ gen' = gen + 1
    /\ wPc' = "for"
    /\ UNCHANGED <<job, originalAllItems, simulationItems, bestResult,
                   maxVolumeFound, results, nextGen, posted, orientVars,
                   simVars, coordVars,
                   greedyVars, singleVars>>

\* 4. FINAL REPORTING: post 'done' (256-285)
WorkerReport ==
    /\ wPc = "for"
    /\ ~(gen < job.totalGenerations)
    /\ posted' = Append(posted,
                   [ type |-> "done",
                     result |-> WorkerResult(job.input.container, bestResult,
                                             maxVolumeFound, originalAllItems) ])
    /\ wPc' = "done"
    /\ UNCHANGED <<job, originalAllItems, simulationItems, population,
                   bestResult, maxVolumeFound, gen, results, nextGen,
                   orientVars, simVars, coordVars,
                   greedyVars, singleVars>>

NextWorker ==
    \/ WorkerStart
    \/ WorkerSeed
    \/ WorkerSeeded
    \/ WorkerProgress
    \/ WorkerEvaluate
    \/ WorkerBreed
    \/ WorkerNextGeneration
    \/ WorkerReport

SpecWorker == InitWorker /\ [][NextWorker]_vars

\* the result of the 'done' message the worker posted
PostedResult == posted[Len(posted)].result

\* the placed items of a result that are instances of the type p
PlacedOfType(result, p) ==
    Cardinality({ k \in 1..Len(result.placedItems) :
                    \E i \in 0..(ExpandCount(p) - 1) :
                        result.placedItems[k].packageId = ItemId(p, i) })

\* the entries of unplacedItems for the type p
EntriesOfType(result, p) ==
    { e \in 1..Len(result.unplacedItems) : result.unplacedItems[e].id = p.id }

\* the quantity unplacedItems reports for the type p, 0 if it has no entry
RemainingOfType(result, p) ==
    IF EntriesOfType(result, p) = {} THEN 0
    ELSE result.unplacedItems[CHOOSE e \in EntriesOfType(result, p) : TRUE].quantity

\* C4 (supply conservation): in the result a worker posts, for every type of
\* a quantity q >= 1, the placed items of the type plus the quantity reported
\* unplaced for it (in at most one entry, 0 without one) is q, also when the
\* expanded items exceed the cap.
C4_SupplyConservation ==
    wPc = "done" =>
        \A k \in 1..Len(job.input.packages) :
            LET p == job.input.packages[k]
            IN  (~IsFill(p) /\ p.quantity >= 1) =>
                    /\ Cardinality(EntriesOfType(PostedResult, p)) <= 1
                    /\ PlacedOfType(PostedResult, p)
                           + RemainingOfType(PostedResult, p) = p.quantity

\* more items than the cap, a generation evaluated, and a type placed in part
C4_Witness ==
    /\ wPc = "done"
    /\ Len(originalAllItems) > ItemCap
    /\ job.totalGenerations >= 1
    /\ \E k \in 1..Len(job.input.packages) :
           LET p == job.input.packages[k]
           IN  /\ ~IsFill(p)
               /\ PlacedOfType(PostedResult, p) >= 1
               /\ RemainingOfType(PostedResult, p) >= 1

\* C5 (fill types are not tracked for remainder): in the result a worker
\* posts after at least one generation, unplacedItems has no entry for a type
\* whose quantity is absent or 0.
C5_NoFillRemainder ==
    (wPc = "done" /\ job.totalGenerations >= 1) =>
        \A k \in 1..Len(job.input.packages) :
            IsFill(job.input.packages[k]) =>
                EntriesOfType(PostedResult, job.input.packages[k]) = {}

\* dna holds every item of items exactly once and nothing else
IsPermutationOf(dna, items) ==
    /\ Len(dna) = Len(items)
    /\ \A k \in 1..Len(items) :
           Cardinality({ i \in 1..Len(dna) : dna[i] = items[k] }) = 1

\* C19 (chromosome validity): in every generation every chromosome of the
\* population, and of the generation being bred (survivors, children, mutated
\* children), is a permutation of the simulation item set.
C19_ChromosomesValid ==
    wPc \notin {"unused", "idle"} =>
        /\ \A i \in 1..Len(population) :
               IsPermutationOf(population[i], simulationItems)
        /\ \A i \in 1..Len(nextGen) :
               IsPermutationOf(nextGen[i], simulationItems)

\* a later generation, of three or more items, holds a chromosome that was not
\* in the generation before it: a child of two different survivors, or a
\* mutated child
C19_Witness ==
    /\ wPc = "for"
    /\ gen >= 1
    /\ Len(simulationItems) >= 3
    /\ \E i \in 1..Len(population) :
           \A k \in 1..Len(results) : population[i] # results[k].dna

\* the largest fitness among the results of a generation
MaxVol(res) ==
    CHOOSE v \in { res[i].vol : i \in 1..Len(res) } :
        \A i \in 1..Len(res) : res[i].vol <= v

\* once a generation was evaluated, bestResult achieves maxVolumeFound
BestIsRecorded ==
    (wPc \in {"breed", "for", "timer", "done"} /\ gen >= 1) =>
        /\ maxVolumeFound >= 0
        /\ PlacedVolume(bestResult) = maxVolumeFound

\* a step of the worker: maxVolumeFound does not decrease; the evaluation of a
\* generation leaves it at the larger of its old value and the generation's
\* best fitness, with bestResult a placement of that volume; the 'done'
\* message carries bestResult
ElitismStep ==
    /\ maxVolumeFound' >= maxVolumeFound
    /\ (wPc = "timer" /\ wPc' = "breed") =>
           /\ maxVolumeFound' = Max(maxVolumeFound, MaxVol(results'))
           /\ PlacedVolume(bestResult') = maxVolumeFound'
    /\ (wPc = "for" /\ wPc' = "done") =>
           posted'[Len(posted')].result.placedItems = bestResult

\* C20 (elitism across generations): maxVolumeFound starts below every
\* fitness and each generation leaves it at the maximum of its old value and
\* the fitness of every chromosome of the generation, so after generation g it
\* is the maximum over generations 0..g; it never decreases; bestResult is a
\* placement of exactly that volume, and is the placement of the final output.
C20_Elitism ==
    [](BestIsRecorded) /\ [][ElitismStep]_vars

\* the result posted after the last of several generations, whose last
\* generation held chromosomes of less than the best fitness
C20_Witness ==
    /\ wPc = "done"
    /\ job.totalGenerations = MaxGenerations
    /\ gen = MaxGenerations
    /\ maxVolumeFound > 0
    /\ \E k \in 1..Len(results) : results[k].vol < maxVolumeFound
    /\ PostedResult.placedItems = bestResult

\* C21 (fixed population): at the start of every generation the population
\* has exactly the configured size for the load, and from the second
\* generation on its first K chromosomes are the K fittest of the generation
\* before, in their order and unchanged (K the survivor count for the load).
C21_FixedPopulation ==
    wPc \in {"for", "timer"} =>
        /\ Len(population) = PopulationSize(simulationItems)
        /\ gen >= 1 =>
               \A i \in 1..SurvivorsCount(simulationItems) :
                   population[i] = results[i].dna

\* the start of a later generation under light load: the survivors differ in
\* fitness, and a child that is none of them fills the population
C21_Witness ==
    /\ wPc = "for"
    /\ gen >= 1
    /\ ~IsHeavyLoad(simulationItems)
    /\ Len(population) = PopulationLight
    /\ results[1].vol > results[SurvivorsLight].vol
    /\ \E i \in (SurvivorsLight + 1)..Len(population) :
           \A k \in 1..SurvivorsLight : population[i] # population[k]

\* C22 (informed seeding): the initial population of a worker contains the
\* ordering of all items by descending volume and the ordering by descending
\* largest footprint dimension.
C22_InformedSeeding ==
    (wPc = "for" /\ gen = 0) =>
        /\ \E i \in 1..Len(population) :
               population[i] = SortByVolDesc(simulationItems)
        /\ \E i \in 1..Len(population) :
               population[i] = SortByFootprintDesc(simulationItems)

\* the messages posted so far are 'progress' for the generations 0, 1, ... in
\* order, then, once the handler has finished, one 'done'
ProtocolSoFar ==
    wPc \notin {"unused"} =>
        /\ \A i \in 1..Len(posted) :
               IF i <= job.totalGenerations
               THEN posted[i].type = "progress" /\ posted[i].gen = i - 1
               ELSE posted[i].type = "done"
        /\ wPc \in {"idle", "seed"} => Len(posted) = 0
        /\ wPc = "for" => Len(posted) = gen
        /\ wPc \in {"timer", "breed"} => Len(posted) = gen + 1
        /\ wPc = "done" => Len(posted) = job.totalGenerations + 1

\* a step only appends to the messages; a step that evaluates a generation
\* comes after the 'progress' of that generation; nothing follows 'done'
ProtocolStep ==
    /\ SubSeq(posted', 1, Len(posted)) = posted
    /\ results' # results =>
           /\ posted' = posted
           /\ posted[Len(posted)].type = "progress"
           /\ posted[Len(posted)].gen = gen
    /\ wPc = "done" => posted' = posted

\* C27 (worker message protocol): for a job of G generations the worker posts
\* exactly G 'progress' messages, gen = 0 .. G-1 in increasing order, each
\* before its generation is evaluated, then exactly one 'done', and nothing
\* after it.
C27_MessageProtocol ==
    [](ProtocolSoFar) /\ [][ProtocolStep]_vars

\* the handler has finished a job of several generations
C27_Witness ==
    /\ wPc = "done"
    /\ job.totalGenerations = MaxGenerations
    /\ Len(posted) = MaxGenerations + 1
    /\ posted[MaxGenerations].type = "progress"
    /\ posted[MaxGenerations + 1].type = "done"

\* C29 (best-of-generation fitness never regresses): when a generation after
\* the first is evaluated, its best fitness is at least the best fitness of
\* the generation before, whatever the random choices of the breeding were.
C29_NoRegression ==
    [][(wPc = "timer" /\ wPc' = "breed" /\ gen >= 1) =>
           MaxVol(results') >= MaxVol(results)]_vars

\* a later generation has been evaluated; its chromosomes differ in fitness and
\* the fittest is one the generation before had handed down
C29_Witness ==
    /\ wPc = "breed"
    /\ gen >= 1
    /\ results[1].vol > results[Len(results)].vol
    /\ results[1].dna \in { population[i] :
                               i \in 1..SurvivorsCount(simulationItems) }
    /\ \E i \in 1..Len(population) : population[i] # results[1].dna

\* C17 (utilization consistency): in the result a worker posts after at least
\* one generation, volumeUtilization is 100 times the summed volume of the
\* reported placedItems over the container volume, and totalItemsPacked is the
\* number of reported placedItems.
C17_UtilizationConsistent ==
    (wPc = "done" /\ job.totalGenerations >= 1) =>
        /\ PostedResult.volumeUtilization.num * Volume(job.input.container)
               = 100 * PlacedVolume(PostedResult.placedItems)
                     * PostedResult.volumeUtilization.den
        /\ PostedResult.totalItemsPacked = Len(PostedResult.placedItems)

\* a result posted after the last of several generations, with some items
\* placed and the container not full
C17_Witness ==
    /\ wPc = "done"
    /\ job.totalGenerations = MaxGenerations
    /\ Len(PostedResult.placedItems) >= 2
    /\ PostedResult.totalItemsPacked = Len(PostedResult.placedItems)
    /\ PlacedVolume(PostedResult.placedItems) < Volume(job.input.container)
    /\ PostedResult.volumeUtilization.num > 0

(***************************************************************************)
(* The coordinator: calculatePacking (part_000 254-319)                    *)
(***************************************************************************)
\* Math.min(navigator.hardwareConcurrency, 4)
MaxWorkersCap == 4

\* the workers spawned when hardwareConcurrency is undefined
DefaultWorkers == 2

\* 8 in the source, scaled down
GENERATIONS_PER_WORKER == 2

\* the values of navigator.hardwareConcurrency; 0 stands for undefined
HardwareConcurrency == {0, 1, 2, 3, 4, 8}

\* line 260
MaxWorkers(hc) ==
    IF hc # 0 THEN Min(hc, MaxWorkersCap) ELSE DefaultWorkers

\* the workers, by the strategyId of their job
WorkerIds == 0..(maxWorkers - 1)

\* fractions, for the percentages and volumeUtilization
Fraction(n, d) == [ num |-> n, den |-> d ]

FracAdd(a, b) == Fraction(a.num * b.den + b.num * a.den, a.den * b.den)

FracLess(a, b) == a.num * b.den < b.num * a.den

\* Math.round of the fraction n / d, n >= 0 and d > 0
Round(n, d) == (2 * n + d) \div (2 * d)

\* (gen / totalGenerations) * 100
Percent(g, totalGenerations) == Fraction(g * 100, totalGenerations)

\* progressMap[strategyId] = value and nothing else
SetOnlyProgress(map, strategyId, value) ==
    [ k \in 1..Len(map) |->
        IF k = strategyId + 1 THEN value ELSE Fraction(0, 1) ]

\* progressMap[strategyId] = value
SetProgress(map, strategyId, value) ==
    [ map EXCEPT ![strategyId + 1] = value ]

\* progressMap.reduce((a, b) => a + b, 0)
RECURSIVE ReduceSum(_, _, _)
ReduceSum(map, k, acc) ==
    IF k > Len(map) THEN acc
    ELSE The({ ReduceSum(map, k + 1, next) :
                   next \in {FracAdd(acc, map[k])} })

\* Math.round(progressMap.reduce(...) / maxWorkers)
AvgProgress(map, n) ==
    The({ Round(sum.num, sum.den * n) :
              sum \in {ReduceSum(map, 1, Fraction(0, 1))} })

\* `Optimizing on ${maxWorkers} Cores... ${avgProgress}%`: its two numbers
ProgressMessage(n, avgProgress) == [ cores |-> n, percent |-> avgProgress ]

\* results.sort((a, b) => a.volumeUtilization - b.volumeUtilization)
SortByUtilizationAsc(s) ==
    LET n == Len(s)
        Before(j, i) ==
            \/ FracLess(s[j].volumeUtilization, s[i].volumeUtilization)
            \/ /\ ~FracLess(s[i].volumeUtilization, s[j].volumeUtilization)
               /\ j < i
        Place(i) == Cardinality({ j \in 1..n : Before(j, i) }) + 1
    IN  [ q \in 1..n |-> s[CHOOSE i \in 1..n : Place(i) = q] ]

\* results.sort((a, b) => b.volumeUtilization - a.volumeUtilization), stable
SortByUtilizationDesc(s) ==
    LET n == Len(s)
        Before(j, i) ==
            \/ FracLess(s[i].volumeUtilization, s[j].volumeUtilization)
            \/ /\ ~FracLess(s[j].volumeUtilization, s[i].volumeUtilization)
               /\ j < i
        Place(i) == Cardinality({ j \in 1..n : Before(j, i) }) + 1
    IN  [ q \in 1..n |-> s[CHOOSE i \in 1..n : Place(i) = q] ]

\* z.toFixed(1) of a whole number
ToFixed1(z) == NumToStr(z) \o <<".", "0">>

DigitValue(c) == CHOOSE d \in 0..9 : DigitChar(d) = c

\* the number a string of digits stands for
RECURSIVE ParseDigits(_, _, _)
ParseDigits(str, k, acc) ==
    IF k > Len(str) THEN acc
    ELSE ParseDigits(str, k + 1, 10 * acc + DigitValue(str[k]))

\* parseFloat of "<digits>.0"
ParseFloat(str) ==
    LET dot == CHOOSE k \in 1..Len(str) : str[k] = "."
    IN  ParseDigits(SubSeq(str, 1, dot - 1), 1, 0)

\* a set of numbers as the sequence .sort((a, b) => a - b) leaves
SortAscending(S) ==
    [ q \in 1..Cardinality(S) |->
        CHOOSE v \in S : Cardinality({ u \in S : u < v }) = q - 1 ]

\* uniqueZ and bestResult.layers (lines 295-298)
Layers(placedItems) ==
    SortAscending({0} \cup { ParseFloat(ToFixed1(placedItems[k].z)) :
                                 k \in 1..Len(placedItems) })

\* completedWorkers >= 1
SomeCompleted(completed, n) == completed >= 1

\* completedWorkers >= maxWorkers - 1
AllButOneCompleted(completed, n) == completed >= n - 1

\* completedWorkers === maxWorkers
AllCompleted(completed, n) == completed = n

\* the job every worker is posted
CoordInput == [ container |-> Dims(2, 2, 1), packages |-> <<tA3, tC>> ]

\* a package larger than the container: nothing can be placed
tG == QuantityType(<<"g">>, "G", Dims(3, 3, 3), FALSE, 1)

NoRoom == [ container |-> Dims(2, 2, 1), packages |-> <<tG>> ]

CoordInputs == {CoordInput, NoRoom}

\* the results a worker can post for the job: the placement of a chromosome
WorkerOutcomes(input) ==
    { The({ WorkerResult(input.container, placed, PlacedVolume(placed),
                         ExpandInput(input.packages)) :
            placed \in {runSimulation(input.container, dna)} }) :
      dna \in Rotations(CapItems(ExpandInput(input.packages))) }

\* the outcomes of every input the coordinator is called with
OutcomesOf == [ input \in CoordInputs |-> WorkerOutcomes(input) ]

\* the state after the executor has spawned the workers (lines 260-317)
InitCoord ==
    /\ coordInput \in CoordInputs
    /\ hardwareConcurrency \in HardwareConcurrency
    /\ hasOnProgress \in BOOLEAN
    /\ maxWorkers = MaxWorkers(hardwareConcurrency)
    /\ workerPc = [ w \in 0..(MaxWorkers(hardwareConcurrency) - 1) |-> "running" ]
    /\ workerGen = [ w \in 0..(MaxWorkers(hardwareConcurrency) - 1) |-> 0 ]
    /\ terminated = {}
    /\ completedWorkers = 0
    /\ coordResults = <<>>
    /\ progressMap = [ k \in 1..MaxWorkers(hardwareConcurrency) |-> Fraction(0, 1) ]
    /\ onProgressCalls = <<>>
    /\ promise = "pending"
    /\ resolved = <<>>
    /\ resolveCalls = 0
    /\ rejectCalls = 0
    /\ OrientUnused
    /\ SimUnused
    /\ WorkerUnused
    /\ GreedyUnused
    /\ SingleUnused

\* worker w posts 'progress' for its generation and goes on to the next; the
\* coordinator handles the message (worker 225-227, coordinator 278-282)
CoordProgress(w) ==
    /\ workerPc[w] = "running"
    /\ w \notin terminated
    /\ workerGen[w] < GENERATIONS_PER_WORKER
    /\ workerGen' = [ workerGen EXCEPT ![w] = @ + 1 ]
    /\ \E map \in { SetProgress(progressMap, w,
                        Percent(workerGen[w], GENERATIONS_PER_WORKER)) } :
           /\ progressMap' = map
           /\ onProgressCalls' =
                  IF hasOnProgress
                  THEN Append(onProgressCalls,
                              ProgressMessage(maxWorkers,
                                              AvgProgress(map, maxWorkers)))
                  ELSE onProgressCalls
    /\ UNCHANGED <<coordInput, hardwareConcurrency, hasOnProgress,
                   maxWorkers, workerPc,
                   terminated, completedWorkers, coordResults, promise,
                   resolved, resolveCalls, rejectCalls, orientVars, simVars,
                   workerVars,
                   greedyVars, singleVars>>

\* worker w posts 'done' after its last generation; the coordinator handles
\* the message (worker 275-285, coordinator 284-301)
CoordDone(w) ==
    /\ workerPc[w] = "running"
    /\ w \notin terminated
    /\ ~(workerGen[w] < GENERATIONS_PER_WORKER)
    /\ workerPc' = [ workerPc EXCEPT ![w] = "finished" ]
    /\ terminated' = terminated \cup {w}
    /\ completedWorkers' = completedWorkers + 1
    /\ \E result \in OutcomesOf[coordInput] :
         \E pushed \in { Append(coordResults, result) } :
           IF AllCompleted(completedWorkers + 1, maxWorkers)
           THEN \E sorted \in { SortByUtilizationDesc(pushed) } :
                \E best \in { [ sorted[1] EXCEPT
                                  !.layers = Layers(sorted[1].placedItems) ] } :
                    /\ coordResults' = [ sorted EXCEPT ![1] = best ]
                    /\ resolveCalls' = resolveCalls + 1
                    /\ IF promise = "pending"
                       THEN promise' = "resolved" /\ resolved' = best
                       ELSE UNCHANGED <<promise, resolved>>
           ELSE /\ coordResults' = pushed
                /\ UNCHANGED <<promise, resolved, resolveCalls>>
    /\ UNCHANGED <<coordInput, hardwareConcurrency, hasOnProgress,
                   maxWorkers, workerGen,
                   progressMap, onProgressCalls, rejectCalls, orientVars,
                   simVars, workerVars,
                   greedyVars, singleVars>>

\* worker w raises an error; the coordinator handles it (lines 305-309)
CoordError(w) ==
    /\ workerPc[w] = "running"
    /\ w \notin terminated
    /\ workerPc' = [ workerPc EXCEPT ![w] = "failed" ]
    /\ terminated' = terminated \cup {w}
    /\ rejectCalls' = rejectCalls + 1
    /\ promise' = IF promise = "pending" THEN "rejected" ELSE promise
    /\ UNCHANGED <<coordInput, hardwareConcurrency, hasOnProgress,
                   maxWorkers, workerGen,
                   completedWorkers, coordResults, progressMap,
                   onProgressCalls, resolved, resolveCalls, orientVars,
                   simVars, workerVars,
                   greedyVars, singleVars>>

NextCoord ==
    \/ \E w \in WorkerIds : CoordProgress(w)
    \/ \E w \in WorkerIds : CoordDone(w)
    \/ \E w \in WorkerIds : CoordError(w)

SpecCoord == InitCoord /\ [][NextCoord]_vars

\* C8 (progress monotonicity): the percentages onProgress is called with
\* never decrease along a run, whatever the order the workers' progress
\* messages arrive in.
C8_ProgressMonotonic ==
    \A i, j \in 1..Len(onProgressCalls) :
        i <= j => onProgressCalls[i].percent <= onProgressCalls[j].percent

\* four workers have all reported their last generation, in some interleaving
\* that raised the percentage more than once
C8_Witness ==
    /\ maxWorkers = MaxWorkersCap
    /\ \A w \in WorkerIds : workerGen[w] = GENERATIONS_PER_WORKER
    /\ Len(onProgressCalls) = maxWorkers * GENERATIONS_PER_WORKER
    /\ Cardinality({ onProgressCalls[i].percent :
                         i \in 1..Len(onProgressCalls) }) >= 3

\* C9 (global best selection): the result the promise resolves with has a
\* volumeUtilization no smaller than that of any result a worker delivered.
C9_GlobalBest ==
    promise = "resolved" =>
        /\ Len(coordResults) = maxWorkers
        /\ \A i \in 1..Len(coordResults) :
               ~FracLess(resolved.volumeUtilization,
                         coordResults[i].volumeUtilization)

\* resolved after three or more workers delivered results of different volume
C9_Witness ==
    /\ promise = "resolved"
    /\ maxWorkers >= 3
    /\ \E i \in 1..Len(coordResults) :
           FracLess(coordResults[i].volumeUtilization,
                    resolved.volumeUtilization)

\* C10 (barrier): resolve is called at most once; the promise is resolved only
\* when every spawned worker has delivered 'done', and is resolved, by the one
\* call, as soon as every worker has.
C10_Barrier ==
    /\ resolveCalls <= 1
    /\ promise = "resolved" =>
           /\ resolveCalls = 1
           /\ completedWorkers = maxWorkers
           /\ \A w \in WorkerIds : workerPc[w] = "finished"
    /\ (\A w \in WorkerIds : workerPc[w] = "finished") =>
           /\ resolveCalls = 1
           /\ promise = "resolved"
    /\ resolveCalls = 1 => \A w \in WorkerIds : workerPc[w] = "finished"

\* four workers, the promise resolved by the fourth 'done'
C10_Witness ==
    /\ maxWorkers = MaxWorkersCap
    /\ promise = "resolved"
    /\ resolveCalls = 1
    /\ completedWorkers = MaxWorkersCap

\* the workers that raised an error
FailedWorkers == { w \in WorkerIds : workerPc[w] = "failed" }

\* C11 (instance fault is fatal): once a worker has raised an error the
\* promise is rejected, resolve has not been and is never called, and no
\* result is delivered, whatever the remaining workers go on to deliver.
C11_FaultIsFatal ==
    FailedWorkers # {} =>
        /\ promise = "rejected"
        /\ resolveCalls = 0
        /\ resolved = <<>>

\* one of four workers failed and the three others delivered 'done'
C11_Witness ==
    /\ maxWorkers = MaxWorkersCap
    /\ Cardinality(FailedWorkers) = 1
    /\ completedWorkers = maxWorkers - 1
    /\ promise = "rejected"

\* C12 (sibling teardown): once a worker has raised an error, every worker
\* of the run has been terminated.
C12_SiblingsTornDown ==
    FailedWorkers # {} => \A w \in WorkerIds : w \in terminated

\* C16 (layers): the layers of the result the promise resolves with are the
\* distinct z start-coordinates of its placed items, strictly ascending, and
\* nothing else; the list is empty when nothing was placed.
C16_Layers ==
    promise = "resolved" =>
        /\ \A i, j \in 1..Len(resolved.layers) :
               i < j => resolved.layers[i] < resolved.layers[j]
        /\ { resolved.layers[i] : i \in 1..Len(resolved.layers) }
               = { resolved.placedItems[k].z :
                       k \in 1..Len(resolved.placedItems) }

\* what the handlers of worker messages write: the progress map, the calls of
\* onProgress, the results and the count of completions (lines 278-302)
MessageStateUnchanged ==
    /\ onProgressCalls' = onProgressCalls
    /\ progressMap' = progressMap
    /\ coordResults' = coordResults
    /\ completedWorkers' = completedWorkers

\* C30 (no callbacks after completion): once the promise has settled, resolved
\* or rejected, onProgress is not called again and no message of a worker
\* changes the coordinator's progress map, results or count of completions.
C30_QuietAfterSettled ==
    [][(promise \in {"resolved", "rejected"}) => MessageStateUnchanged]_vars

\* the part of C30 after a resolution: every worker was terminated on its
\* 'done', so nothing arrives any more
QuietAfterResolved ==
    [][(promise = "resolved") => MessageStateUnchanged]_vars

\* C13 (termination): the loop of every invocation of runSimulation is left
\* in the end, and the invocation returns.
C13_Terminates ==
    <>(\A r \in Runs : sim[r].pc = "done")

\* an invocation returned with items still queued, its anchors used up, after
\* iterations that placed and iterations that discarded
C13_Witness ==
    /\ sim[1].pc = "done"
    /\ sim[1].anchors = <<>>
    /\ Len(Queue(1)) > 0
    /\ Len(sim[1].placedItems) >= 2
    /\ sim[1].safetyCounter > Len(sim[1].placedItems)

(***************************************************************************)
(* The worker on the scenarios of the specification: inputs below the item *)
(* cap, one generation, any ordering a seed of the population can be       *)
(***************************************************************************)
\* Scenario A: container 100 x 100 x 100, one type 50 x 50 x 50, quantity 8
ScenarioA ==
    [ container |-> Dims(100, 100, 100),
      packages |-> << QuantityType(<<"p">>, "P", Dims(50, 50, 50), FALSE, 8) >> ]

\* Scenario B: container 100 x 100 x 100, one type 60 x 60 x 60, quantity 2
ScenarioB ==
    [ container |-> Dims(100, 100, 100),
      packages |-> << QuantityType(<<"p">>, "P", Dims(60, 60, 60), FALSE, 2) >> ]

ScenarioJobs ==
    [ input : {ScenarioA, ScenarioB}, strategyId : StrategyIds,
      totalGenerations : {1} ]

\* the orderings a chromosome of the first population can be (lines 205-219)
ScenarioOrderings(items) ==
    { FirstChromosome(s, items, draws) :
          s \in StrategyIds, draws \in Draws(Len(items) - 1) }

InitScenario ==
    /\ job \in ScenarioJobs
    /\ originalAllItems = <<>>
    /\ simulationItems = <<>>
    /\ population = <<>>
    /\ bestResult = <<>>
    /\ maxVolumeFound = -1
    /\ gen = 0
    /\ results = <<>>
    /\ nextGen = <<>>
    /\ wPc = "idle"
    /\ posted = <<>>
    /\ OrientUnused
    /\ SimUnused
    /\ CoordUnused
    /\ GreedyUnused
    /\ SingleUnused

\* the message arrives: expand (the items are fewer than the cap, so
\* simulationItems is all of them), and follow one chromosome of the
\* population (lines 182-225)
ScenarioStart ==
    /\ wPc = "idle"
    /\ \E all \in {ExpandInput(job.input.packages)} :
           /\ originalAllItems' = all
           /\ simulationItems' = all
           /\ \E dna \in ScenarioOrderings(all) : population' = <<dna>>
    /\ bestResult' = <<>>
    /\ maxVolumeFound' = -1
    /\ gen' = 0
    /\ wPc' = "for"
    /\ UNCHANGED <<job, results, nextGen, posted, orientVars, simVars,
                   coordVars,
                   greedyVars, singleVars>>

\* the only generation ends (lines 242-253, 225)
ScenarioGenerationEnd ==
    /\ wPc = "breed"
    /\ population' = nextGen
    /\ gen' = gen + 1
    /\ wPc' = "for"
    /\ UNCHANGED <<job, originalAllItems, simulationItems, bestResult,
                   maxVolumeFound, results, nextGen, posted, orientVars,
                   simVars, coordVars,
                   greedyVars, singleVars>>

NextScenario ==
    \/ ScenarioStart
    \/ WorkerProgress
    \/ WorkerEvaluate
    \/ ScenarioGenerationEnd
    \/ WorkerReport

SpecScenario == InitScenario /\ [][NextScenario]_vars

\* C14 (Scenario A): the result posted for Scenario A has all 8 instances
\* placed, no unplaced items and volumeUtilization 100, whichever ordering
\* was evaluated.
C14_ScenarioA ==
    (wPc = "done" /\ job.input = ScenarioA) =>
        /\ Len(PostedResult.placedItems) = 8
        /\ PostedResult.totalItemsPacked = 8
        /\ PlacedOfType(PostedResult, ScenarioA.packages[1]) = 8
        /\ PostedResult.unplacedItems = <<>>
        /\ PostedResult.volumeUtilization.num
               = 100 * PostedResult.volumeUtilization.den

\* Scenario A reported after evaluating a shuffled ordering
C14_Witness ==
    /\ wPc = "done"
    /\ job.input = ScenarioA
    /\ results[1].dna # originalAllItems
    /\ Len(PostedResult.placedItems) = 8

(***************************************************************************)
(* The single-pass calculatePacking (src/src/services/packingService.ts)   *)
(***************************************************************************)
\* the cap on the iterations of the Main Packing Loop
MAX_ITEMS == 5000

\* allOrientations (lines 48-55), { l, w, h } as length, width, height
GreedyOrientations(type) ==
    LET L == type.dimensions.length
        W == type.dimensions.width
        H == type.dimensions.height
    IN  << Dims(L, W, H), Dims(W, L, H), Dims(L, H, W),
           Dims(W, H, L), Dims(H, W, L), Dims(H, L, W) >>

\* allowedOrientations (lines 61-63)
GreedyAllowed(type) ==
    IF type.keepUpright
    THEN SelectSeq(GreedyOrientations(type),
                   LAMBDA o : 10 * Abs(o.height - type.dimensions.height) < 1)
    ELSE GreedyOrientations(type)

\* Bounds check (lines 67-69)
GreedyFits(cont, anchor, orient) ==
    /\ ~(anchor.x + orient.width > cont.width)
    /\ ~(anchor.y + orient.height > cont.height)
    /\ ~(anchor.z + orient.length > cont.length)

\* Collision check with one placed item (lines 74-78)
Overlap(p, anchor, orient) ==
    /\ anchor.x < p.x + p.width /\ anchor.x + orient.width > p.x
    /\ anchor.y < p.y + p.height /\ anchor.y + orient.height > p.y
    /\ anchor.z < p.z + p.length /\ anchor.z + orient.length > p.z

\* the PlacedItem tryPlaceItem returns (lines 85-95)
GreedyPlacedItem(anchor, orient, type) ==
    [ x |-> anchor.x, y |-> anchor.y, z |-> anchor.z,
      width |-> orient.width, height |-> orient.height,
      length |-> orient.length,
      packageId |-> type.id, color |-> type.color, label |-> type.name ]

\* tryPlaceItem (lines 41-99); found is FALSE for null
tryPlaceItem(cont, placedItems, anchor, type) ==
    The({ LET ok == { j \in 1..Len(allowed) :
                        /\ GreedyFits(cont, anchor, allowed[j])
                        /\ \A k \in 1..Len(placedItems) :
                               ~Overlap(placedItems[k], anchor, allowed[j]) }
          IN  IF ok = {}
              THEN [ found |-> FALSE ]
              ELSE [ found |-> TRUE,
                     item |-> GreedyPlacedItem(anchor,
                                  allowed[CHOOSE j \in ok : \A k \in ok : j <= k],
                                  type) ] :
          allowed \in {GreedyAllowed(type)} })

\* finiteItems, sorted by volume descending (lines 14-26, 33)
RECURSIVE FiniteFrom(_, _, _)
FiniteFrom(packages, k, acc) ==
    IF k > Len(packages) THEN acc
    ELSE IF IsFill(packages[k]) THEN FiniteFrom(packages, k + 1, acc)
    ELSE FiniteFrom(packages, k + 1,
             acc \o [ i \in 1..packages[k].quantity |->
                        ItemToPack(packages[k], i - 1) ])

GreedyFiniteItems(packages) == SortByVolDesc(FiniteFrom(packages, 1, <<>>))

\* infiniteTypes, sorted by volume descending (lines 14-17, 29-32)
GreedyInfiniteTypes(packages) ==
    The({ SortDescBy(types, [ i \in 1..Len(types) |-> Volume(types[i].dimensions) ]) :
          types \in {SelectSeq(packages, IsFill)} })

\* the locals before the Main Packing Loop (lines 6-39)
GreedyStart(input) ==
    [ placedItems |-> <<>>,
      infiniteTypes |-> GreedyInfiniteTypes(input.packages),
      finiteItems |-> GreedyFiniteItems(input.packages),
      anchors |-> <<Anchor(0, 0, 0)>>,
      iterations |-> 0,
      pc |-> "loop" ]

\* while (anchors.length > 0 && iterations < MAX_ITEMS)
GreedyLoopCondition(st) == Len(st.anchors) > 0 /\ st.iterations < MAX_ITEMS

\* 1. Try to fit remaining Finite items: the index used, or 0 (lines 117-123)
UsedFiniteIndex(cont, st, anchor) ==
    LET ok == { i \in 1..Len(st.finiteItems) :
                  tryPlaceItem(cont, st.placedItems, anchor,
                               st.finiteItems[i].type).found }
    IN  IF ok = {} THEN 0 ELSE CHOOSE i \in ok : \A k \in ok : i <= k

\* 2. If no finite item fits, try Infinite items: the index, or 0 (126-131)
UsedInfiniteIndex(cont, st, anchor) ==
    LET ok == { i \in 1..Len(st.infiniteTypes) :
                  tryPlaceItem(cont, st.placedItems, anchor,
                               st.infiniteTypes[i]).found }
    IN  IF ok = {} THEN 0 ELSE CHOOSE i \in ok : \A k \in ok : i <= k

\* the anchors pushed after a placement (lines 143-145)
GreedyNewAnchors(placed) ==
    << Anchor(placed.x, placed.y + placed.height, placed.z),
       Anchor(placed.x + placed.width, placed.y, placed.z),
       Anchor(placed.x, placed.y, placed.z + placed.length) >>

\* the locals after a placement (lines 133-145)
GreedyAfterPlacing(st, sorted, placed, usedFiniteIndex) ==
    [ st EXCEPT
        !.iterations = @ + 1,
        !.placedItems = Append(@, placed),
        !.finiteItems = IF usedFiniteIndex # 0
                        THEN Splice(@, usedFiniteIndex) ELSE @,
        !.anchors = Shift(sorted) \o GreedyNewAnchors(placed) ]

\* one iteration of the Main Packing Loop (lines 102-149)
GreedyIterationFrom(cont, st, sorted) ==
    The({ IF f # 0
          THEN [ placed |-> TRUE,
                 locals |-> GreedyAfterPlacing(st, sorted,
                                tryPlaceItem(cont, st.placedItems, sorted[1],
                                             st.finiteItems[f].type).item, f) ]
          ELSE The({ IF n # 0
                     THEN [ placed |-> TRUE,
                            locals |-> GreedyAfterPlacing(st, sorted,
                                           tryPlaceItem(cont, st.placedItems,
                                               sorted[1],
                                               st.infiniteTypes[n]).item, 0) ]
                     ELSE [ placed |-> FALSE,
                            locals |-> [ st EXCEPT
                                           !.iterations = @ + 1,
                                           !.anchors = Shift(sorted) ] ] :
                     n \in {UsedInfiniteIndex(cont, st, sorted[1])} }) :
          f \in {UsedFiniteIndex(cont, st, sorted[1])} })

GreedyIteration(cont, st) ==
    The({ GreedyIterationFrom(cont, st, sorted) :
              sorted \in {SortAnchors(st.anchors)} })

\* uniqueZ (line 153)
GreedyLayers(placedItems) ==
    SortAscending({ ParseFloat(ToFixed1(placedItems[k].z)) :
                        k \in 1..Len(placedItems) })

\* the PackingResult returned (lines 151-162)
GreedyResult(cont, placedItems) ==
    [ containerDimensions |-> cont,
      placedItems |-> placedItems,
      unplacedItems |-> <<>>,
      volumeUtilization |-> Utilization(PlacedVolume(placedItems), Volume(cont)),
      totalItemsPacked |-> Len(placedItems),
      layers |-> GreedyLayers(placedItems) ]

\* fill and quantity types together
Mixed == [ container |-> Dims(2, 2, 2), packages |-> <<tF, tA3, tB>> ]

GreedyInputs == {ScenarioA, ScenarioB, CoordInput, NoRoom, Mixed} \cup WorkerInputs

InitGreedy ==
    /\ gInput \in GreedyInputs
    /\ greedy = [ pc |-> "idle" ]
    /\ gResult = <<>>
    /\ OrientUnused
    /\ SimUnused
    /\ WorkerUnused
    /\ CoordUnused
    /\ SingleUnused

\* the call: lines 3-39
GreedyCall ==
    /\ greedy.pc = "idle"
    /\ greedy' = GreedyStart(gInput)
    /\ UNCHANGED <<gInput, gResult, orientVars, simVars, workerVars, coordVars,
                   singleVars>>

\* an iteration that places an item (lines 102-145)
GreedyPlace ==
    /\ greedy.pc = "loop"
    /\ GreedyLoopCondition(greedy)
    /\ \E it \in {GreedyIteration(gInput.container, greedy)} :
           /\ it.placed
           /\ greedy' = it.locals
    /\ UNCHANGED <<gInput, gResult, orientVars, simVars, workerVars, coordVars,
                   singleVars>>

\* an iteration that drops the anchor (lines 146-148)
GreedyDiscard ==
    /\ greedy.pc = "loop"
    /\ GreedyLoopCondition(greedy)
    /\ \E it \in {GreedyIteration(gInput.container, greedy)} :
           /\ ~it.placed
           /\ greedy' = it.locals
    /\ UNCHANGED <<gInput, gResult, orientVars, simVars, workerVars, coordVars,
                   singleVars>>

\* the loop is left and the result returned (lines 151-162)
GreedyReturn ==
    /\ greedy.pc = "loop"
    /\ ~GreedyLoopCondition(greedy)
    /\ greedy' = [ greedy EXCEPT !.pc = "done" ]
    /\ gResult' = GreedyResult(gInput.container, greedy.placedItems)
    /\ UNCHANGED <<gInput, orientVars, simVars, workerVars, coordVars,
                   singleVars>>

NextGreedy ==
    \/ GreedyCall
    \/ GreedyPlace
    \/ GreedyDiscard
    \/ GreedyReturn

SpecGreedy == InitGreedy /\ [][NextGreedy]_vars

\* C15 (Scenario B): the result for Scenario B has totalItemsPacked = 1 and
\* unplacedItems is exactly one entry, for the type, of quantity 1.
C15_ScenarioB ==
    (greedy.pc = "done" /\ gInput = ScenarioB) =>
        /\ gResult.totalItemsPacked = 1
        /\ Len(gResult.unplacedItems) = 1
        /\ gResult.unplacedItems[1].id = ScenarioB.packages[1].id
        /\ gResult.unplacedItems[1].quantity = 1

\* the supply limit in the single-pass service, whose placed items carry the
\* id of their type: no finite-quantity type is placed more often than its
\* quantity
GreedySupplyLimit ==
    greedy.pc \in {"loop", "done"} =>
        \A k \in 1..Len(gInput.packages) :
            ~IsFill(gInput.packages[k]) =>
                Cardinality({ i \in 1..Len(greedy.placedItems) :
                                greedy.placedItems[i].packageId
                                    = gInput.packages[k].id })
                    <= gInput.packages[k].quantity

\* Scenario B as the worker reports it: one item packed, one entry left over
ScenarioBPosted ==
    (wPc = "done" /\ job.input = ScenarioB) =>
        /\ PostedResult.totalItemsPacked = 1
        /\ Len(PostedResult.unplacedItems) = 1
        /\ PostedResult.unplacedItems[1].id = ScenarioB.packages[1].id
        /\ PostedResult.unplacedItems[1].quantity = 1

(***************************************************************************)
(* The single-threaded calculatePacking (part_000 1-250)                   *)
(***************************************************************************)
\* the instances generated for a fill type: 100 in the source, scaled down
SingleFillCount == 2

\* the cap on the items: 600 in the source, scaled down
SingleItemCap == 3

\* POPULATION_SIZE: 12 in the source, scaled down
POPULATION_SIZE == 3

\* GENERATIONS: 8 in the source, scaled down
GENERATIONS == 2

\* SURVIVORS: 4 in the source, scaled down
SURVIVORS == 2

\* the cap on the iterations of the single-threaded runSimulation
SingleMaxIterations == 5000

\* the collision scan of the single-threaded runSimulation (part_000 99-109)
SingleFeasible(cont, placedItems, a, orient) ==
    /\ FitsContainer(cont, a, orient)
    /\ \A k \in 1..Len(placedItems) : ~Overlap(placedItems[k], a, orient)

\* for (const orient of orientations): index of the first feasible one, or 0
SingleFirstOrientation(cont, placedItems, a, orientations) ==
    LET ok == { j \in 1..Len(orientations) :
                    SingleFeasible(cont, placedItems, a, orientations[j]) }
    IN  IF ok = {} THEN 0 ELSE CHOOSE j \in ok : \A k \in ok : j <= k

\* for (let i = 0; i < queue.length; i++): index of the first queue entry with
\* a feasible orientation, or 0 (the source's -1)
SingleBestItemIndex(cont, placedItems, a, queue) ==
    LET ok == { i \in 1..Len(queue) :
                  \E orientations \in {getOrientations(queue[i].type)} :
                      SingleFirstOrientation(cont, placedItems, a,
                                             orientations) # 0 }
    IN  IF ok = {} THEN 0 ELSE CHOOSE i \in ok : \A k \in ok : i <= k

SingleBestOrientation(cont, placedItems, a, item) ==
    The({ orientations[SingleFirstOrientation(cont, placedItems, a,
                                              orientations)] :
              orientations \in {getOrientations(item.type)} })

\* while (anchors.length > 0 && queue.length > 0 && safetyCounter < 5000)
SingleLoopCondition(st, queue) ==
    /\ Len(st.anchors) > 0
    /\ Len(queue) > 0
    /\ st.safetyCounter < SingleMaxIterations

\* one iteration, the anchors sorted and the item index found (part_000 79-141)
SingleIterationFrom(cont, st, queue, sorted, i) ==
    IF i # 0
    THEN The({ [ locals |->
                   [ st EXCEPT
                       !.safetyCounter = @ + 1,
                       !.placedItems = Append(@, PlacedItem(sorted[1], orient,
                                                            queue[i])),
                       !.anchors = Shift(sorted) \o NewAnchors(sorted[1], orient) ],
                 queue |-> Splice(queue, i) ] :
               orient \in { SingleBestOrientation(cont, st.placedItems,
                                                  sorted[1], queue[i]) } })
    ELSE [ locals |-> [ st EXCEPT !.safetyCounter = @ + 1,
                                  !.anchors = Shift(sorted) ],
           queue |-> queue ]

SingleIteration(cont, st, queue) ==
    The({ The({ SingleIterationFrom(cont, st, queue, sorted, i) :
                  i \in { SingleBestItemIndex(cont, st.placedItems, sorted[1],
                                              queue) } }) :
          sorted \in {SortAnchors(st.anchors)} })

\* the loop of the single-threaded runSimulation: its locals when it is left
RECURSIVE SingleRunLoop(_, _, _)
SingleRunLoop(cont, st, queue) ==
    IF SingleLoopCondition(st, queue)
    THEN The({ SingleRunLoop(cont, it.locals, it.queue) :
                   it \in {SingleIteration(cont, st, queue)} })
    ELSE [ st EXCEPT !.queueLeft = Len(queue) ]

\* the locals of the single-threaded runSimulation at its return
SingleSimulation(cont, itemsToPack) ==
    SingleRunLoop(cont,
                  [ placedItems |-> <<>>, anchors |-> <<Anchor(0, 0, 0)>>,
                    safetyCounter |-> 0, queueLeft |-> Len(itemsToPack) ],
                  itemsToPack)

\* Expand input and cap (part_000 155-164)
SingleExpandCount(p) == IF IsFill(p) THEN SingleFillCount ELSE p.quantity

RECURSIVE SingleExpandFrom(_, _, _)
SingleExpandFrom(packages, k, acc) ==
    IF k > Len(packages) THEN acc
    ELSE SingleExpandFrom(packages, k + 1,
             acc \o [ i \in 1..SingleExpandCount(packages[k]) |->
                        ItemToPack(packages[k], i - 1) ])

SingleAllItems(packages) ==
    The({ IF Len(all) > SingleItemCap THEN SubSeq(all, 1, SingleItemCap)
          ELSE all :
          all \in {SingleExpandFrom(packages, 1, <<>>)} })

\* Seed Population (part_000 170-181): the populations the shuffles can give
SingleSeeds(items) ==
    { << SortByVolDesc(items), SortByFootprintDesc(items) >> \o rest :
          rest \in [ 1..(POPULATION_SIZE - 2) ->
                       { shuffle(items, draws) :
                             draws \in Draws(Len(items) - 1) } ] }

\* population.map and results.sort (part_000 189-195)
SingleEvaluate(cont, pop) ==
    The({ SortByVolDesc(unsorted) :
          unsorted \in
            { [ i \in 1..Len(pop) |->
                  The({ [ dna |-> pop[i], placed |-> run.placedItems,
                          vol |-> PlacedVolume(run.placedItems),
                          iterations |-> run.safetyCounter,
                          anchorsLeft |-> Len(run.anchors),
                          queueLeft |-> run.queueLeft ] :
                        run \in {SingleSimulation(cont, pop[i])} }) ] } })

\* the children one pass of the breeding loop can push (part_000 206-211)
SingleChildren(survivors) ==
    { IF rm < 2 THEN mutate(child, ra, rb) ELSE child :
          rm \in RandomTenths, ra \in RandomTenths, rb \in RandomTenths,
          child \in { breed(survivors[RandomIndex(r1, Len(survivors)) + 1],
                            survivors[RandomIndex(r2, Len(survivors)) + 1]) :
                          r1 \in RandomTenths, r2 \in RandomTenths } }

\* the next generations the breeding loop can end with (part_000 203-212)
SingleNextGens(res) ==
    UNION { { survivors \o rest :
                rest \in [ 1..(POPULATION_SIZE - Len(survivors)) ->
                             SingleChildren(survivors) ] } :
            survivors \in {Survivors(res, SURVIVORS)} }

\* `Running Simulation... Generation ${gen + 1}/${GENERATIONS}`
SingleProgressMessage(g) == [ generation |-> g + 1, of |-> GENERATIONS ]

\* the PackingResult returned (part_000 216-249)
SingleResult(cont, allItems, best, maxVolume) ==
    [ containerDimensions |-> cont,
      placedItems |-> best,
      unplacedItems |-> UnplacedItems(best, allItems),
      volumeUtilization |-> Utilization(maxVolume, Volume(cont)),
      totalItemsPacked |-> Len(best),
      layers |-> Layers(best) ]

SingleInputs ==
    { [ container |-> Dims(2, 2, 1), packages |-> <<tA, tB>> ],
      [ container |-> Dims(2, 1, 2), packages |-> <<tA3, tC>> ],
      [ container |-> Dims(2, 1, 1), packages |-> <<tC, tF>> ],
      [ container |-> Dims(2, 1, 3), packages |-> <<tA, tT>> ],
      NoRoom }

InitSingle ==
    /\ sInput \in SingleInputs
    /\ sOnProgress \in BOOLEAN
    /\ single = [ pc |-> "idle" ]
    /\ sCalls = <<>>
    /\ sResult = <<>>
    /\ OrientUnused
    /\ SimUnused
    /\ WorkerUnused
    /\ CoordUnused
    /\ GreedyUnused

\* the call: expand, cap, seed, gen = 0 (part_000 147-186)
SingleCall ==
    /\ single.pc = "idle"
    /\ \E items \in {SingleAllItems(sInput.packages)} :
         \E pop \in SingleSeeds(items) :
           single' = [ pc |-> "for", allItems |-> items, population |-> pop,
                       bestResult |-> <<>>, maxVolumeFound |-> -1, gen |-> 0,
                       results |-> <<>> ]
    /\ UNCHANGED <<sInput, sOnProgress, sCalls, sResult, orientVars, simVars,
                   workerVars, coordVars, greedyVars>>

\* onProgress is called, then the timer is awaited (part_000 186-188)
SingleProgress ==
    /\ single.pc = "for"
    /\ single.gen < GENERATIONS
    /\ sCalls' = IF sOnProgress
                 THEN Append(sCalls, SingleProgressMessage(single.gen))
                 ELSE sCalls
    /\ single' = [ single EXCEPT !.pc = "timer" ]
    /\ UNCHANGED <<sInput, sOnProgress, sResult, orientVars, simVars,
                   workerVars, coordVars, greedyVars>>

\* the generation: evaluate, record the best, breed, gen++ (part_000 189-214)
SingleGeneration ==
    /\ single.pc = "timer"
    /\ \E res \in {SingleEvaluate(sInput.container, single.population)} :
         \E next \in SingleNextGens(res) :
           single' = [ single EXCEPT
                         !.pc = "for",
                         !.results = res,
                         !.maxVolumeFound =
                             IF res[1].vol > @ THEN res[1].vol ELSE @,
                         !.bestResult =
                             IF res[1].vol > single.maxVolumeFound
                             THEN res[1].placed ELSE @,
                         !.population = next,
                         !.gen = @ + 1 ]
    /\ UNCHANGED <<sInput, sOnProgress, sCalls, sResult, orientVars, simVars,
                   workerVars, coordVars, greedyVars>>

\* the loop is left: unplaced items, layers, the result (part_000 216-249)
SingleReturn ==
    /\ single.pc = "for"
    /\ ~(single.gen < GENERATIONS)
    /\ single' = [ single EXCEPT !.pc = "done" ]
    /\ sResult' = SingleResult(sInput.container, single.allItems,
                               single.bestResult, single.maxVolumeFound)
    /\ UNCHANGED <<sInput, sOnProgress, sCalls, orientVars, simVars,
                   workerVars, coordVars, greedyVars>>

NextSingle ==
    \/ SingleCall
    \/ SingleProgress
    \/ SingleGeneration
    \/ SingleReturn

SpecSingle == InitSingle /\ [][NextSingle]_vars

\* the same for the single-threaded runSimulation: every simulation of the
\* last generation ran at most 1 + 3n iterations and was left with the anchors
\* or the queue empty
SingleCapNeverReached ==
    single.pc \in {"for", "timer", "done"} =>
        \A i \in 1..Len(single.results) :
            /\ single.results[i].iterations
                   <= 1 + 3 * Len(single.results[i].dna)
            /\ single.results[i].iterations + single.results[i].anchorsLeft
                   = 1 + 3 * Len(single.results[i].placed)
            /\ \/ single.results[i].anchorsLeft = 0
               \/ single.results[i].queueLeft = 0

\* the cap on simulated items in the worker (line 197), at its real value
SourceItemCap == 5000

\* the cap on the items in the single-threaded service, at its real value
SingleSourceItemCap == 600

\* C28 (the safety cap is never what stops the loop): every iteration uses up
\* one anchor and only a placement makes three, so an invocation on n items
\* has run at most 1 + 3n iterations; for the capped inputs that is below the
\* iteration cap, and the loop is left with the anchors or the queue empty.
C28_CapNeverReached ==
    /\ 1 + 3 * SourceItemCap < maxIterations
    /\ 1 + 3 * SingleSourceItemCap < SingleMaxIterations
    /\ \A r \in Runs :
           Started(r) =>
               /\ sim[r].safetyCounter + Len(sim[r].anchors)
                      = 1 + 3 * Len(sim[r].placedItems)
               /\ sim[r].safetyCounter <= 1 + 3 * Len(arrays.itemsToPack)
               /\ sim[r].pc = "done" =>
                      /\ Len(sim[r].anchors) = 0 \/ Len(Queue(r)) = 0
                      /\ sim[r].safetyCounter < maxIterations

\* an invocation was left because its queue ran empty, with anchors to spare,
\* after iterations that placed and iterations that discarded
C28_Witness ==
    \E r \in Runs :
        /\ sim[r].pc = "done"
        /\ Len(Queue(r)) = 0
        /\ Len(sim[r].anchors) > 0
        /\ sim[r].safetyCounter > Len(sim[r].placedItems)

\* C26 (conservation under the cap, single-threaded service): in the result
\* returned, for every type of a quantity q >= 1, the placed items of the type
\* plus the quantity reported unplaced for it is q, also when the expanded
\* items exceed the cap.
C26_SingleConservation ==
    single.pc = "done" =>
        \A k \in 1..Len(sInput.packages) :
            LET p == sInput.packages[k]
            IN  (~IsFill(p) /\ p.quantity >= 1) =>
                    PlacedOfType(sResult, p) + RemainingOfType(sResult, p)
                        = p.quantity

=============================================================================
